---- MODULE Spec2Model ----
(***************************************************************************)
(* A model of the josh filter engine (esrlabs/centralgithook):              *)
(*   - the tree filter  apply / unapply            (src/src/filter/mod.rs)  *)
(*   - the commit filter, the history walk, unapply_filter and             *)
(*     apply_filter_to_refs                        (src/src/history.rs)     *)
(*   - the shared forward/backward caches of the proxy                     *)
(*                                                (src/src/bin/josh-proxy.rs)*)
(*                                                                         *)
(* Git objects are content addressed, so an object id is modelled by the   *)
(* object's content: a tree is the set of its (path, blob) entries, a      *)
(* commit is the record of its header fields.                              *)
(***************************************************************************)
EXTENDS Integers, Sequences, FiniteSets, TLC

VARIABLES
    \* ---- tree filter (SpecTree) ----
    filter,        \* the filter handed to apply / unapply
    tree,          \* the tree argument
    parent_tree,   \* the parent tree argument of unapply
    applied,       \* result of apply(filter, tree)
    unapplied,     \* result of unapply(filter, tree, parent_tree)
    reapplied,     \* result of apply(filter, unapply(filter, tree, parent_tree))
    tpc,           \* which of the calls have been made
    \* ---- repository (SpecWalk) ----
    graph,         \* the commits of the upstream history
    odb,           \* the commit objects of the repository
    cache,         \* the filter cache: (filter, original) -> filtered
    cfilter,       \* the filter the history is filtered with
    last,          \* the last call of walk / apply_to_commit and its result
    \* ---- push (SpecUnapply) ----
    push,          \* the arguments of unapply_filter
    ures,          \* the result of unapply_filter
    upc,           \* fetched / pushed / done
    \* ---- references (SpecRefs) ----
    refs,          \* the references of the repository: name -> commit
    rres,          \* the last call of apply_filter_to_refs and its result
    \* ---- proxy (SpecProxy) ----
    forward,       \* the shared forward maps: (view, original) -> filtered
    backward,      \* the shared backward maps: (view, filtered) -> original
    procs,         \* the requests: where each one is, its view, fm and bm
    \* ---- view maps (SpecMaps) ----
    up,            \* the upstream ViewMaps: (view, from) -> to
    down,          \* a downstream ViewMaps over up
    objs,          \* the objects of the object store
    mcall,         \* the last call on the maps and its result
    \* ---- filter interning (SpecIntern) ----
    FILTERS,       \* the interning table: handle -> operator
    mutex,         \* the thread that holds the lock of FILTERS, 0 for none
    threads,       \* the calls of to_filter / to_op the threads are in
    issued,        \* the handles to_filter has returned
    \* ---- spec round trip (SpecText) ----
    nf,            \* the two normalised filters whose specs are compared
    printed,       \* the spec of each filter, once printed
    reparsed,      \* the result of parsing each spec, once parsed
    \* ---- push hook (SpecPush) ----
    ru,            \* the repo_update request of the hook
    hookrefs,      \* the references of the repository the hook runs in
    hookodb,       \* the commit objects of that repository
    sent,          \* the pushes sent to the remote, in order
    reply,         \* the result of process_repo_update
    \* ---- walk step by step (SpecSteps) ----
    winput,        \* the commit walk2 is called on
    wtx,           \* the repository and the transaction of the walk
    wknown,        \* the known list of find_known
    n_new,         \* the count of find_known
    queue,         \* the commits the filtered traversal has yet to yield
    visited,       \* the commits the traversal has applied the filter to, with the results
    wres,          \* the result of walk2
    wpc,           \* idle / traverse / done
    \* ---- create_filtered_commit (SpecCreate) ----
    crepo,         \* the repository and the transaction create_filtered_commit is called in
    corig,         \* the original commit
    cparents,      \* the filtered parent ids
    ctree,         \* the filtered tree
    cspec,         \* the filter the result is recorded for
    cret,          \* the result of create_filtered_commit
    \* ---- find_original (SpecOriginal) ----
    fo,            \* the calls of find_original on one map bm: contained_in, the id asked for, the result
    \* ---- refresh of all known views (SpecRefresh) ----
    known_views,   \* the lock of known_views (written, readers) and the view strings it holds
    refresh,       \* the refresh_all_known_views tasks: where each one is, its view, the views it has yet to rebuild
    skips,         \* whether a rebuild was in progress at each try_write that failed
    \* ---- apply call by call (SpecApply) ----
    acall,         \* the filter and the tree apply is called on
    frames,        \* the calls of apply that have not returned, the outermost first
    aret,          \* the result of the outermost call, once it has returned
    \* ---- walk call by call (SpecNest) ----
    nentry,        \* the call that is made: walk or apply_to_commit, and the commit
    nframes,       \* the calls of walk2 and apply_to_commit that have not returned, the outermost first
    ntx,           \* the repository and the transaction, as the calls leave them
    nret,          \* the result of the outermost call, once it has returned
    nsteps,        \* the steps the calls have taken
    \* ---- fetch_upstream (SpecFetch) ----
    credential_cache,\* the credential cache: for each hash none, a time less than 60 s ago, or an older time
    fetching,      \* the hashes in the set fetching
    fetch_push_pool,\* the fetches that the one thread of the fetch pool has yet to finish, the running one first
    requests,      \* the requests: the hash, stale_ok, and how fetch_upstream has answered
    passed,        \* the hashes that a successful fetch has recorded less than 60 s ago
    \* ---- the locks of forward_maps and backward_maps (SpecLocks) ----
    workers,       \* each thread of the two pools: the handler it runs, the lock operations it has yet to do, and the guards it holds
    policy         \* whether RwLock::read waits for a waiting writer

treeVars == <<filter, tree, parent_tree, applied, unapplied, reapplied, tpc>>

repoVars == <<graph, odb, cache, cfilter>>

walkVars == <<last>>

unapplyVars == <<push, ures, upc>>

refsVars == <<refs, rres>>

proxyVars == <<forward, backward, procs>>

mapsVars == <<up, down, objs, mcall>>

internVars == <<FILTERS, mutex, threads, issued>>

textVars == <<nf, printed, reparsed>>

pushVars == <<ru, hookrefs, hookodb, sent, reply>>

stepsVars == <<winput, wtx, wknown, n_new, queue, visited, wres, wpc>>

createVars == <<crepo, corig, cparents, ctree, cspec, cret>>

originalVars == <<fo>>

refreshVars == <<known_views, refresh, skips>>

applyVars == <<acall, frames, aret>>

nestVars == <<nentry, nframes, ntx, nret, nsteps>>

fetchVars == <<credential_cache, fetching, fetch_push_pool, requests, passed>>

locksVars == <<workers, policy>>

vars == <<treeVars, repoVars, walkVars, unapplyVars, refsVars, proxyVars, mapsVars, internVars, textVars, pushVars, stepsVars, createVars, originalVars, refreshVars, applyVars, nestVars, fetchVars, locksVars>>

\* what the actions of each specification leave alone
nonTreeVars == <<repoVars, walkVars, unapplyVars, refsVars, proxyVars, mapsVars, internVars, textVars, pushVars, stepsVars, createVars, originalVars, refreshVars, applyVars, nestVars, fetchVars, locksVars>>

nonWalkVars == <<treeVars, unapplyVars, refsVars, proxyVars, mapsVars, internVars, textVars, pushVars, stepsVars, createVars, originalVars, refreshVars, applyVars, nestVars, fetchVars, locksVars>>

nonUnapplyVars == <<treeVars, refsVars, proxyVars, mapsVars, internVars, textVars, pushVars, stepsVars, createVars, originalVars, refreshVars, applyVars, nestVars, fetchVars, locksVars>>

nonRefsVars == <<treeVars, walkVars, unapplyVars, proxyVars, mapsVars, internVars, textVars, pushVars, stepsVars, createVars, originalVars, refreshVars, applyVars, nestVars, fetchVars, locksVars>>

nonProxyVars == <<treeVars, walkVars, unapplyVars, mapsVars, internVars, textVars, pushVars, stepsVars, createVars, originalVars, refreshVars, applyVars, nestVars, fetchVars, locksVars>>

nonMapsVars == <<treeVars, repoVars, walkVars, unapplyVars, refsVars, proxyVars, internVars, textVars, pushVars, stepsVars, createVars, originalVars, refreshVars, applyVars, nestVars, fetchVars, locksVars>>

nonInternVars == <<treeVars, repoVars, walkVars, unapplyVars, refsVars, proxyVars, mapsVars, textVars, pushVars, stepsVars, createVars, originalVars, refreshVars, applyVars, nestVars, fetchVars, locksVars>>

nonTextVars == <<treeVars, repoVars, walkVars, unapplyVars, refsVars, proxyVars, mapsVars, internVars, pushVars, stepsVars, createVars, originalVars, refreshVars, applyVars, nestVars, fetchVars, locksVars>>

nonPushVars == <<treeVars, repoVars, walkVars, unapplyVars, refsVars, proxyVars, mapsVars, internVars, textVars, stepsVars, createVars, originalVars, refreshVars, applyVars, nestVars, fetchVars, locksVars>>

nonStepsVars == <<treeVars, walkVars, unapplyVars, refsVars, proxyVars, mapsVars, internVars, textVars, pushVars, createVars, originalVars, refreshVars, applyVars, nestVars, fetchVars, locksVars>>

nonCreateVars == <<treeVars, repoVars, walkVars, unapplyVars, refsVars, proxyVars, mapsVars, internVars, textVars, pushVars, stepsVars, originalVars, refreshVars, applyVars, nestVars, fetchVars, locksVars>>

nonOriginalVars == <<treeVars, walkVars, unapplyVars, refsVars, proxyVars, mapsVars, internVars, textVars, pushVars, stepsVars, createVars, refreshVars, applyVars, nestVars, fetchVars, locksVars>>

nonRefreshVars == <<treeVars, repoVars, walkVars, unapplyVars, refsVars, proxyVars, mapsVars, internVars, textVars, pushVars, stepsVars, createVars, originalVars, applyVars, nestVars, fetchVars, locksVars>>

nonApplyVars == <<treeVars, repoVars, walkVars, unapplyVars, refsVars, proxyVars, mapsVars, internVars, textVars, pushVars, stepsVars, createVars, originalVars, refreshVars, nestVars, fetchVars, locksVars>>

nonNestVars == <<treeVars, walkVars, unapplyVars, refsVars, proxyVars, mapsVars, internVars, textVars, pushVars, stepsVars, createVars, originalVars, refreshVars, applyVars, fetchVars, locksVars>>

nonFetchVars == <<treeVars, repoVars, walkVars, unapplyVars, refsVars, proxyVars, mapsVars, internVars, textVars, pushVars, stepsVars, createVars, originalVars, refreshVars, applyVars, nestVars, locksVars>>

nonLocksVars == <<treeVars, repoVars, walkVars, unapplyVars, refsVars, proxyVars, mapsVars, internVars, textVars, pushVars, stepsVars, createVars, originalVars, refreshVars, applyVars, nestVars, fetchVars>>

(***************************************************************************)
(* Bounds of the model.                                                    *)
(***************************************************************************)
MaxEntries == 2      \* blobs in a generated tree

Names == {"a", "b"}
Blobs == {1, 2}
NoBlob == 0          \* git2::Oid::zero() where a blob id is expected

(***************************************************************************)
(* Trees.  An entry is a blob at a path; directories exist through the     *)
(* paths of the blobs below them.                                          *)
(***************************************************************************)
Entry(p, b) == [path |-> p, blob |-> b]

EmptyTree == {}

IsPrefix(p, q) == Len(p) <= Len(q) /\ SubSeq(q, 1, Len(p)) = p

Clash(p, q) == IsPrefix(p, q) \/ IsPrefix(q, p)

DropPrefix(p, q) == SubSeq(q, Len(p) + 1, Len(q))

\* tree.get_path(path) followed by repo.find_tree: the subtree at path
LookupTree(t, p) ==
    {Entry(DropPrefix(p, e.path), e.blob) :
        e \in {x \in t : IsPrefix(p, x.path) /\ Len(x.path) > Len(p)}}

\* tree.get_path(path) followed by repo.find_blob: the blob at path, or zero
LookupBlob(t, p) ==
    IF \E e \in t : e.path = p
    THEN (CHOOSE e \in t : e.path = p).blob
    ELSE NoBlob

\* tree::insert of a tree at path
InsertTree(t, p, sub) ==
    {e \in t : ~Clash(p, e.path)} \cup {Entry(p \o e.path, e.blob) : e \in sub}

\* tree::insert of a blob at path
InsertBlob(t, p, b) ==
    {e \in t : ~Clash(p, e.path)} \cup {Entry(p, b)}

\* tree::overlay(a, b): recursive merge, b wins where both have an entry
\* and not both are trees
Overlay(a, b) ==
    b \cup {e \in a : \A x \in b : ~Clash(e.path, x.path)}

\* tree::subtract(a, b): the entries of a that b does not explain
SubtractTree(a, b) == a \ b

\* glob::Pattern::matches_path_with, require_literal_separator: a pattern is
\* a sequence of components, "*" matches one component, "**" any number
RECURSIVE GlobMatches(_, _)
GlobMatches(pat, p) ==
    IF pat = <<>> THEN p = <<>>
    ELSE IF Head(pat) = "**"
         THEN GlobMatches(Tail(pat), p)
              \/ (p # <<>> /\ GlobMatches(pat, Tail(p)))
    ELSE /\ p # <<>>
         /\ (Head(pat) = "*" \/ Head(pat) = Head(p))
         /\ GlobMatches(Tail(pat), Tail(p))

\* tree::remove_pred with the predicate isblob && pattern.matches: the blobs
\* whose path matches are kept, emptied subtrees are pruned
RemovePred(t, pat) == {e \in t : GlobMatches(pat, e.path)}

\* tree::dirtree: one marker blob per directory (the root included)
DirMarker == "JOSH_ORIG_PATH"
Dirtree(t) ==
    {Entry(d \o <<DirMarker>>, 1) :
        d \in UNION {{SubSeq(e.path, 1, n) : n \in 0..(Len(e.path) - 1)} : e \in t}}

(***************************************************************************)
(* Filters.  A Filter handle is the hash of the operator's debug print, so *)
(* a handle is modelled by the operator itself.                            *)
(***************************************************************************)
MkOp(o, arg, kids) == [op |-> o, arg |-> arg, kids |-> kids]

Nop == MkOp("Nop", <<>>, <<>>)
Empty == MkOp("Empty", <<>>, <<>>)
Fold == MkOp("Fold", <<>>, <<>>)
Squash == MkOp("Squash", <<>>, <<>>)
Dirs == MkOp("Dirs", <<>>, <<>>)
File(p) == MkOp("File", p, <<>>)
Prefix(p) == MkOp("Prefix", p, <<>>)
Subdir(p) == MkOp("Subdir", p, <<>>)
Glob(pat) == MkOp("Glob", pat, <<>>)
Compose(fs) == MkOp("Compose", <<>>, fs)
Chain(a, b) == MkOp("Chain", <<>>, <<a, b>>)
Subtract(a, b) == MkOp("Subtract", <<>>, <<a, b>>)
Workspace(p) == MkOp("Workspace", p, <<>>)

\* JoshResult<git2::Tree>
Ok(t) == [ok |-> TRUE, tree |-> t, err |-> ""]
Err(msg) == [ok |-> FALSE, tree |-> {}, err |-> msg]

NotReversible == "filter not reversible"

\* tree::compose: overlay of the filtered trees in order, later wins
RECURSIVE ComposeTrees(_)
ComposeTrees(ts) ==
    IF ts = <<>> THEN EmptyTree
    ELSE Overlay(ComposeTrees(SubSeq(ts, 1, Len(ts) - 1)), ts[Len(ts)])

\* collect::<JoshResult<Vec<_>>>(): the first error of a sequence of results
FirstErr(rs) ==
    IF \A i \in 1..Len(rs) : rs[i].ok THEN Ok(EmptyTree)
    ELSE rs[CHOOSE i \in 1..Len(rs) :
                ~rs[i].ok /\ \A j \in 1..(i - 1) : rs[j].ok]

\* let name = value; body: the value under the name Body gives it
With(value, Body(_)) == Body(value)

(***************************************************************************)
(* The text of a filter.  A string is the sequence of its symbols: the     *)
(* punctuation characters one by one, a keyword or a path component as one *)
(* symbol.                                                                 *)
(***************************************************************************)
RECURSIVE Join(_, _)
\* [..].join(sep)
Join(ss, sep) ==
    IF ss = <<>> THEN ""
    ELSE IF Len(ss) = 1 THEN ss[1]
    ELSE ss[1] \o sep \o Join(Tail(ss), sep)

\* path.to_string_lossy(): the components joined by "/"
PathSyms(p) ==
    [i \in 1..(2 * Len(p) - 1) |-> IF i % 2 = 1 THEN p[(i + 1) \div 2] ELSE "/"]

RECURSIVE JoinSyms(_, _)
\* [..].join(sep) on strings of symbols
JoinSyms(ss, sep) ==
    IF ss = <<>> THEN <<>>
    ELSE IF Len(ss) = 1 THEN ss[1]
    ELSE ss[1] \o sep \o JoinSyms(Tail(ss), sep)

RECURSIVE spec(_)

\* a slip: Prefix is printed the way Subdir is
spec2PrefixAsSubdir(op) ==
    CASE op.op = "Compose" ->
            <<":", "[">> \o JoinSyms([i \in 1..Len(op.kids) |-> spec(op.kids[i])], <<",">>)
            \o <<"]">>
      [] op.op = "Subtract" ->
            <<":", "subtract", "[">> \o spec(op.kids[1]) \o <<",">>
            \o spec(op.kids[2]) \o <<"]">>
      [] op.op = "Workspace" -> <<":", "workspace", "=">> \o PathSyms(op.arg)
      [] op.op = "Nop" -> <<":", "nop">>
      [] op.op = "Empty" -> <<":", "empty">>
      [] op.op = "Dirs" -> <<":", "DIRS">>
      [] op.op = "Fold" -> <<":", "FOLD">>
      [] op.op = "Squash" -> <<":", "SQUASH">>
      [] op.op = "Chain" -> spec(op.kids[1]) \o spec(op.kids[2])
      [] op.op = "Subdir" -> <<":", "/">> \o PathSyms(op.arg)
      [] op.op = "File" -> <<":", ":">> \o PathSyms(op.arg)
      [] op.op = "Prefix" -> <<":", "/">> \o PathSyms(op.arg)
      [] op.op = "Glob" -> <<":", ":">> \o PathSyms(op.arg)

\* fn spec2
spec2(op) ==
    CASE op.op = "Compose" ->
            <<":", "[">> \o JoinSyms([i \in 1..Len(op.kids) |-> spec(op.kids[i])], <<",">>)
            \o <<"]">>
      [] op.op = "Subtract" ->
            <<":", "subtract", "[">> \o spec(op.kids[1]) \o <<",">>
            \o spec(op.kids[2]) \o <<"]">>
      [] op.op = "Workspace" -> <<":", "workspace", "=">> \o PathSyms(op.arg)
      [] op.op = "Nop" -> <<":", "nop">>
      [] op.op = "Empty" -> <<":", "empty">>
      [] op.op = "Dirs" -> <<":", "DIRS">>
      [] op.op = "Fold" -> <<":", "FOLD">>
      [] op.op = "Squash" -> <<":", "SQUASH">>
      [] op.op = "Chain" -> spec(op.kids[1]) \o spec(op.kids[2])
      [] op.op = "Subdir" -> <<":", "/">> \o PathSyms(op.arg)
      [] op.op = "File" -> <<":", ":">> \o PathSyms(op.arg)
      [] op.op = "Prefix" -> <<":", "prefix", "=">> \o PathSyms(op.arg)
      [] op.op = "Glob" -> <<":", ":">> \o PathSyms(op.arg)

\* pub fn spec
spec(f) == spec2(f)

\* the string of a sequence of symbols
Text(syms) == Join(syms, "")

(***************************************************************************)
(* The optimiser and the parser of filter specs (filter/opt.rs and         *)
(* filter/parse.rs), by the rewrite rules and the grammar they implement.  *)
(***************************************************************************)
RECURSIVE FlattenCompose(_)
\* Compose flattens nested Compose
FlattenCompose(fs) ==
    IF fs = <<>> THEN <<>>
    ELSE (IF Head(fs).op = "Compose" THEN Head(fs).kids ELSE <<Head(fs)>>)
         \o FlattenCompose(Tail(fs))

\* one rewrite at the root of an operator tree whose children are optimized
Step(f) ==
    IF f.op = "Chain" THEN
        LET a == f.kids[1]
            b == f.kids[2]
        IN  CASE a.op = "Nop" -> b
              [] b.op = "Nop" -> a
              [] a.op = "Empty" \/ b.op = "Empty" -> Empty
              [] a.op = "Subdir" /\ b.op = "Prefix" /\ a.arg = b.arg -> Nop
              [] a.op = "Prefix" /\ b.op = "Subdir" /\ a.arg = b.arg -> Nop
              [] a.op = "Chain" -> Chain(a.kids[1], Chain(a.kids[2], b))
              [] OTHER -> f
    ELSE IF f.op = "Compose" THEN
        CASE Len(f.kids) = 0 -> Empty
          [] Len(f.kids) = 1 -> f.kids[1]
          [] \E i \in 1..Len(f.kids) : f.kids[i].op = "Compose" ->
                Compose(FlattenCompose(f.kids))
          [] OTHER -> f
    ELSE f

RECURSIVE optimize(_)
optimize(f) ==
    LET g == MkOp(f.op, f.arg, [i \in 1..Len(f.kids) |-> optimize(f.kids[i])])
        h == Step(g)
    IN  IF h = g THEN g ELSE optimize(h)

\* opt::simplify, used by pretty
simplify(f) == optimize(f)

Punct == {":", "/", "=", "[", "]", ","}
Space == {" ", "\n"}
Meta == {"*", "**", "?"}

IsWord(x) == x \notin Punct /\ x \notin Space

\* the result of a parser: what it read and the rest of the input
Parsed(v, rest) == [ok |-> TRUE, val |-> v, rest |-> rest]
NoParse == [ok |-> FALSE, val |-> <<>>, rest |-> <<>>]

From(s, i) == SubSeq(s, i, Len(s))

At(s, i) == IF i <= Len(s) THEN s[i] ELSE ""

RECURSIVE ParsePath(_)
\* path := component ("/" component)*
ParsePath(s) ==
    IF ~IsWord(At(s, 1)) \/ s = <<>> THEN NoParse
    ELSE IF At(s, 2) = "/" /\ Len(s) >= 3 /\ IsWord(At(s, 3))
         THEN With(ParsePath(From(s, 3)), LAMBDA r :
                  Parsed(<<s[1]>> \o r.val, r.rest))
         ELSE Parsed(<<s[1]>>, Tail(s))

RECURSIVE ParseChain(_), ParseList(_)

\* the path of the atom ":" word "=" path
ParseAssign(s) == IF At(s, 3) # "=" THEN NoParse ELSE ParsePath(From(s, 4))

\* the atom "::" path_or_glob: a File, a Glob when a component has a glob
\* metacharacter, and "::dir/" for Chain(Subdir(dir), Prefix(dir))
ParseFile(s) ==
    With(ParsePath(From(s, 3)), LAMBDA r :
        IF ~r.ok THEN NoParse
        ELSE IF \E i \in 1..Len(r.val) : r.val[i] \in Meta
             THEN Parsed(Glob(r.val), r.rest)
        ELSE IF At(r.rest, 1) = "/"
             THEN Parsed(Chain(Subdir(r.val), Prefix(r.val)), Tail(r.rest))
        ELSE Parsed(File(r.val), r.rest))

\* the atoms ":[" spec ("," spec)* "]", ":exclude[" spec "]" and
\* ":subtract[" spec "," spec "]"
ParseBracket(s) ==
    IF At(s, 2) = "["
    THEN With(ParseList(From(s, 3)), LAMBDA l :
             IF l.ok /\ At(l.rest, 1) = "]"
             THEN Parsed(Compose(l.val), Tail(l.rest)) ELSE NoParse)
    ELSE IF At(s, 3) # "[" THEN NoParse
    ELSE With(ParseList(From(s, 4)), LAMBDA l :
             IF ~l.ok \/ At(l.rest, 1) # "]" THEN NoParse
             ELSE IF At(s, 2) = "exclude" /\ Len(l.val) = 1
                  THEN Parsed(Subtract(Nop, l.val[1]), Tail(l.rest))
             ELSE IF At(s, 2) = "subtract" /\ Len(l.val) = 2
                  THEN Parsed(Subtract(l.val[1], l.val[2]), Tail(l.rest))
             ELSE NoParse)

\* atom
ParseAtom(s) ==
    IF At(s, 1) # ":" THEN NoParse
    ELSE CASE At(s, 2) = "nop" -> Parsed(Nop, From(s, 3))
           [] At(s, 2) = "empty" -> Parsed(Empty, From(s, 3))
           [] At(s, 2) = "DIRS" -> Parsed(Dirs, From(s, 3))
           [] At(s, 2) = "FOLD" -> Parsed(Fold, From(s, 3))
           [] At(s, 2) = "SQUASH" -> Parsed(Squash, From(s, 3))
           [] At(s, 2) = "/" ->
                With(ParsePath(From(s, 3)), LAMBDA r :
                    IF r.ok THEN Parsed(Subdir(r.val), r.rest) ELSE NoParse)
           [] At(s, 2) = ":" -> ParseFile(s)
           [] At(s, 2) = "prefix" ->
                With(ParseAssign(s), LAMBDA r :
                    IF r.ok THEN Parsed(Prefix(r.val), r.rest) ELSE NoParse)
           [] At(s, 2) = "workspace" ->
                With(ParseAssign(s), LAMBDA r :
                    IF r.ok THEN Parsed(Workspace(r.val), r.rest) ELSE NoParse)
           [] At(s, 2) \in {"[", "exclude", "subtract"} -> ParseBracket(s)
           [] OTHER -> NoParse

\* spec := atom+, the concatenation of atoms is a Chain
ParseChain(s) ==
    With(ParseAtom(s), LAMBDA a :
        IF ~a.ok THEN NoParse
        ELSE IF At(a.rest, 1) # ":" THEN a
        ELSE With(ParseChain(a.rest), LAMBDA r :
                 IF r.ok THEN Parsed(Chain(a.val, r.val), r.rest) ELSE NoParse))

\* spec ("," spec)*
ParseList(s) ==
    With(ParseChain(s), LAMBDA x :
        IF ~x.ok THEN NoParse
        ELSE IF At(x.rest, 1) # "," THEN Parsed(<<x.val>>, x.rest)
        ELSE With(ParseList(Tail(x.rest)), LAMBDA l :
                 IF l.ok THEN Parsed(<<x.val>> \o l.val, l.rest) ELSE NoParse))

RECURSIVE TrimEnd(_)
\* trailing whitespace is permitted
TrimEnd(s) ==
    IF s # <<>> /\ s[Len(s)] \in Space THEN TrimEnd(SubSeq(s, 1, Len(s) - 1)) ELSE s

ParseError == "parse error"

\* JoshResult<Filter>
OkFilter(f) == [ok |-> TRUE, filter |-> f, err |-> ""]
ErrFilter(msg) == [ok |-> FALSE, filter |-> Nop, err |-> msg]

\* pub fn parse: the handle of the normalised filter, or a parse error
parse(text) ==
    With(ParseChain(TrimEnd(text)), LAMBDA r :
        IF r.ok /\ r.rest = <<>> THEN OkFilter(optimize(r.val))
        ELSE ErrFilter(ParseError))

(***************************************************************************)
(* Workspace files.  The content of blob 1 is the filter ":/b" followed by *)
(* a newline, the content of blob 2 is no filter, the content of           *)
(* SelfBlob is the workspace filter ":workspace=a".                        *)
(***************************************************************************)
WorkspaceFile == "workspace.josh"

NewBlob == 3         \* a blob with a content of its own

SelfBlob == 4        \* a workspace.josh that names a workspace

BlobText(b) ==
    CASE b = 1 -> <<":", "/", "b", "\n">>
      [] b = 2 -> <<"=">>
      [] b = SelfBlob -> <<":", "workspace", "=", "a", "\n">>
      [] OTHER -> <<>>

\* tree::get_blob: the content of the blob at path, empty if there is none
get_blob(t, p) == BlobText(LookupBlob(t, p))

\* repo.blob(content): the id of the blob with that content
RepoBlob(text) ==
    IF \E b \in Blobs : BlobText(b) = text
    THEN CHOOSE b \in Blobs : BlobText(b) = text
    ELSE NewBlob

\* " ".repeat(n)
Spaces(n) == [i \in 1..n |-> " "]

Max(a, b) == IF a >= b THEN a ELSE b

RECURSIVE pretty2(_, _, _)

\* the closure ff of pretty2: the filters one per line between brackets
PrettyList(filters, n, ind) ==
    With(Max(ind, 4), LAMBDA ind2 :
        <<":">> \o n \o <<"[">> \o <<"\n">> \o Spaces(ind2)
        \o JoinSyms([i \in 1..Len(filters) |-> pretty2(filters[i], ind + 4, TRUE)],
                    <<"\n">> \o Spaces(ind2))
        \o <<"\n">> \o Spaces(ind2 - 4) \o <<"]">>)

\* fn pretty2
pretty2(op, indent, compose) ==
    CASE op.op = "Compose" -> PrettyList(op.kids, <<>>, indent)
      [] op.op = "Subtract" ->
            IF op.kids[1] = Nop /\ op.kids[2].op = "Compose"
            THEN PrettyList(op.kids[2].kids, <<"exclude">>, indent)
            ELSE IF op.kids[1] = Nop
            THEN <<":", "exclude", "[">> \o pretty2(op.kids[2], indent, FALSE)
                 \o <<"]">>
            ELSE PrettyList(op.kids, <<"subtract">>, indent + 4)
      [] op.op = "Chain" ->
            IF /\ op.kids[1].op = "Subdir" /\ op.kids[2].op = "Prefix"
               /\ op.kids[1].arg = op.kids[2].arg
            THEN <<":", ":">> \o PathSyms(op.kids[1].arg) \o <<"/">>
            ELSE IF op.kids[2].op = "Prefix" /\ compose
            THEN PathSyms(op.kids[2].arg) \o <<" ", "=", " ">>
                 \o pretty2(op.kids[1], indent, FALSE)
            ELSE pretty2(op.kids[1], indent, FALSE)
                 \o pretty2(op.kids[2], indent, FALSE)
      [] OTHER -> spec2(op)

\* pub fn pretty
pretty(f, indent) ==
    With(simplify(f), LAMBDA filt :
        IF filt.op = "Compose" /\ indent = 0
        THEN JoinSyms([i \in 1..Len(filt.kids) |-> pretty2(filt.kids[i], indent + 4, TRUE)],
                      <<"\n">> \o Spaces(indent))
        ELSE pretty2(filt, indent, TRUE))

\* parse on the contents of the blobs: the content of blob 1 is the filter
\* ":/b", the content of SelfBlob is ":workspace=a", no other content is a
\* filter
ParseWorkspace(text) ==
    IF text = BlobText(1) THEN OkFilter(Subdir(<<"b">>))
    ELSE IF text = BlobText(SelfBlob) THEN OkFilter(Workspace(<<"a">>))
    ELSE ErrFilter(ParseError)

\* repo.blob(format!("{}\n", pretty(mapped, 0)))
PrettyBlob(f) == RepoBlob(pretty(f, 0) \o <<"\n">>)

RECURSIVE apply(_, _), unapply(_, _, _), unapply2(_, _, _), UnapplyCompose(_, _, _, _)

\* a slip: the filters of a Chain are applied in the wrong order
ApplyChainSwapped(a, b, t) ==
    With(apply(b, t), LAMBDA r : IF ~r.ok THEN r ELSE apply(a, r.tree))

\* apply2, Op::Chain: apply(b, apply(a, tree)?)
ApplyChain(a, b, t) ==
    With(apply(a, t), LAMBDA r : IF ~r.ok THEN r ELSE apply(b, r.tree))

\* fn apply2: filter a single tree
apply2(f, t) ==
    CASE f.op \in {"Nop", "Fold", "Squash"} -> Ok(t)
      [] f.op = "Empty" -> Ok(EmptyTree)
      [] f.op = "Glob" -> Ok(RemovePred(t, f.arg))
      [] f.op = "File" ->
            LET file == LookupBlob(t, f.arg) IN
            IF file # NoBlob THEN Ok(InsertBlob(EmptyTree, f.arg, file))
            ELSE Ok(EmptyTree)
      [] f.op = "Subdir" -> Ok(LookupTree(t, f.arg))
      [] f.op = "Prefix" -> Ok(InsertTree(EmptyTree, f.arg, t))
      [] f.op = "Subtract" ->
            LET af == apply(f.kids[1], t) IN
            IF ~af.ok THEN af ELSE
            LET bf == apply(f.kids[2], t) IN
            IF ~bf.ok THEN bf ELSE
            LET bu == unapply(f.kids[2], bf.tree, EmptyTree) IN
            IF ~bu.ok THEN bu ELSE
            LET ba == apply(f.kids[1], bu.tree) IN
            IF ~ba.ok THEN ba ELSE
            Ok(SubtractTree(af.tree, ba.tree))
      [] f.op = "Dirs" -> Ok(Dirtree(t))
      [] f.op = "Workspace" ->
            With(ParseWorkspace(get_blob(t, f.arg \o <<WorkspaceFile>>)), LAMBDA cw :
                IF cw.ok THEN apply(Compose(<<Subdir(f.arg), cw.filter>>), t)
                ELSE apply(Subdir(f.arg), t))
      [] f.op = "Compose" ->
            LET filtered == [i \in 1..Len(f.kids) |-> apply(f.kids[i], t)] IN
            IF \E i \in 1..Len(filtered) : ~filtered[i].ok
            THEN FirstErr(filtered)
            ELSE Ok(ComposeTrees([i \in 1..Len(filtered) |-> filtered[i].tree]))
      [] f.op = "Chain" -> ApplyChain(f.kids[1], f.kids[2], t)

\* a slip: every operator is taken for Empty
applyAsEmpty(f, t) == Ok(EmptyTree)

\* pub fn apply
apply(f, t) == apply2(f, t)

\* a slip: the prefix is not stripped
UnapplyPrefixKept(f, t, parent) == Ok(t)

\* unapply2, Op::Prefix: the subtree below the prefix
UnapplyPrefix(f, t, parent) == Ok(LookupTree(t, f.arg))

\* a slip: the operators without an inverse are taken for the identity
UnapplyOtherAsNop(f, t, parent) == Ok(t)

\* unapply2, every operator without an arm of its own (Fold, Squash, Dirs)
UnapplyOther(f, t, parent) == Err(NotReversible)

\* fn unapply2: a tree with minimal differences from parent_tree
unapply2(f, t, parent) ==
    CASE f.op = "Nop" -> Ok(t)
      [] f.op = "Empty" -> Ok(parent)
      [] f.op = "Chain" ->
            LET p == apply(f.kids[1], parent) IN
            IF ~p.ok THEN p ELSE
            LET x == unapply(f.kids[2], t, p.tree) IN
            IF ~x.ok THEN x ELSE
            unapply(f.kids[1], x.tree, parent)
      [] f.op = "Workspace" ->
            With(ParseWorkspace(get_blob(t, <<WorkspaceFile>>)), LAMBDA mapped :
                IF ~mapped.ok THEN Err(mapped.err)
                ELSE unapply(Compose(<<Subdir(f.arg), mapped.filter>>),
                             InsertBlob(t, <<WorkspaceFile>>,
                                        PrettyBlob(mapped.filter)),
                             parent))
      [] f.op = "Compose" -> UnapplyCompose(f.kids, Len(f.kids), t, parent)
      [] f.op = "File" ->
            LET file == LookupBlob(t, f.arg) IN
            IF file # NoBlob THEN Ok(InsertBlob(parent, f.arg, file))
            ELSE Ok(EmptyTree)
      [] f.op = "Subtract" ->
            IF f.kids[1].op = "Nop"
            THEN LET bu == unapply2(f.kids[2], t, EmptyTree) IN
                 IF ~bu.ok THEN bu ELSE
                 Ok(Overlay(parent, SubtractTree(t, bu.tree)))
            ELSE Err(NotReversible)
      [] f.op = "Glob" -> Ok(Overlay(parent, RemovePred(t, f.arg)))
      [] f.op = "Prefix" -> UnapplyPrefix(f, t, parent)
      [] f.op = "Subdir" -> Ok(InsertTree(parent, f.arg, t))
      [] OTHER -> UnapplyOther(f, t, parent)

\* pub fn unapply
unapply(f, t, parent) == unapply2(f, t, parent)

\* the loop of unapply2 over Compose(filters), in reverse order; i is the
\* index of the next filter, remaining and result are the loop variables
UnapplyCompose(filters, i, remaining, result) ==
    IF i = 0 THEN Ok(result) ELSE
    LET other == filters[i]
        from_empty == unapply(other, remaining, EmptyTree)
    IN  IF ~from_empty.ok THEN from_empty ELSE
        IF from_empty.tree = EmptyTree
        THEN UnapplyCompose(filters, i - 1, remaining, result)
        ELSE LET res2 == unapply(other, remaining, result) IN
             IF ~res2.ok THEN res2 ELSE
             LET re == apply(other, from_empty.tree) IN
             IF ~re.ok THEN re ELSE
             UnapplyCompose(filters, i - 1,
                            SubtractTree(remaining, re.tree), res2.tree)

(***************************************************************************)
(* The trees and filters the tree filter is exercised on.                  *)
(***************************************************************************)
AllPaths == {<<n>> : n \in Names} \cup {<<n, m>> : n \in Names, m \in Names}

AllEntries == {Entry(p, b) : p \in AllPaths, b \in Blobs}

IsTree(s) == \A e1 \in s, e2 \in s : e1 # e2 => ~Clash(e1.path, e2.path)

TreesUpTo(n) == {s \in SUBSET AllEntries : Cardinality(s) <= n /\ IsTree(s)}

\* trees with a workspace file, below "a" or at the root
WorkspaceTrees ==
    {s \in {{Entry(p, b)} \cup rest :
                p \in {<<"a", WorkspaceFile>>, <<WorkspaceFile>>}, b \in Blobs,
                rest \in {{}, {Entry(<<"b", "a">>, 2)}, {Entry(<<"a", "b">>, 2)}}} :
        IsTree(s)}

Trees == TreesUpTo(MaxEntries) \cup WorkspaceTrees

\* parent trees: the empty tree and the trees of one blob
ParentTrees == {EmptyTree} \cup {{e} : e \in AllEntries}

InvAtoms ==
    {Nop, Empty, File(<<"a">>), Subdir(<<"a">>), Prefix(<<"a">>),
     Glob(<<"*">>), Glob(<<"a", "*">>)}

\* the filters the round-trip law is stated for
Invertible ==
    InvAtoms
    \cup {Chain(x, y) : x \in InvAtoms, y \in InvAtoms}
    \cup {Compose(<<x, y>>) : x \in InvAtoms, y \in InvAtoms}
    \cup {Subtract(Nop, x) : x \in InvAtoms}

\* filters without an inverse
Irreversible ==
    {Dirs, Fold, Squash, Subtract(Subdir(<<"a">>), Nop),
     Subtract(Empty, Glob(<<"*">>)), Subtract(Chain(Nop, Nop), Empty)}

SomeAtoms == {Nop, Empty, Subdir(<<"a">>), Glob(<<"*">>)}

\* a filter without an inverse inside a Chain or a Compose
Nested ==
    {Chain(x, n) : x \in SomeAtoms, n \in Irreversible}
    \cup {Chain(n, x) : x \in SomeAtoms, n \in Irreversible}
    \cup {Compose(<<x, n>>) : x \in SomeAtoms, n \in Irreversible}
    \cup {Compose(<<n, x>>) : x \in SomeAtoms, n \in Irreversible}

ChainAtoms == {Empty, File(<<"a">>), Subdir(<<"a">>), Prefix(<<"a">>)}

\* chains of chains
Chains2 ==
    {Chain(x, Chain(y, z)) : x \in ChainAtoms, y \in ChainAtoms, z \in ChainAtoms}
    \cup {Chain(Chain(x, y), z) : x \in ChainAtoms, y \in ChainAtoms, z \in ChainAtoms}

\* Subtract with a right side that has no inverse
SubtractOfIrreversible ==
    {Subtract(Nop, Dirs), Subtract(Nop, Fold), Subtract(Subdir(<<"a">>), Squash)}

Workspaces ==
    {Workspace(<<"a">>), Chain(Workspace(<<"a">>), Prefix(<<"b">>)),
     Compose(<<Workspace(<<"a">>), Subdir(<<"b">>)>>)}

ComposeAtoms ==
    {File(<<"a">>), Subdir(<<"a">>), Prefix(<<"a">>), Glob(<<"a", "*">>)}

\* a Compose of three filters, flat and nested
Composes3 ==
    {Compose(<<x, y, z>>) : x \in ComposeAtoms, y \in ComposeAtoms, z \in ComposeAtoms}
    \cup {Compose(<<x, Compose(<<y, z>>)>>) :
             x \in ComposeAtoms, y \in ComposeAtoms, z \in ComposeAtoms}

Filters ==
    Invertible \cup Irreversible \cup Nested \cup Chains2
    \cup SubtractOfIrreversible \cup Workspaces \cup Composes3

None == [ok |-> FALSE, tree |-> {}, err |-> "not called"]

\* no call of walk / apply_to_commit yet
NoCall == [op |-> "none", commit |-> {}, warm |-> FALSE, ok |-> FALSE,
           id |-> {}, err |-> ""]

\* no call on the view maps
NoMapCall == [op |-> "none"]

\* the parts of the state a specification does not use stay as they are here
TreeIdle ==
    /\ filter = Nop
    /\ tree = EmptyTree
    /\ parent_tree = EmptyTree
    /\ applied = None
    /\ unapplied = None
    /\ reapplied = None
    /\ tpc = "idle"

RepoIdle ==
    /\ graph = {}
    /\ odb = {}
    /\ cache = {}
    /\ cfilter = Nop

WalkIdle == last = NoCall

UnapplyIdle ==
    /\ push = {}
    /\ ures = {}
    /\ upc = "idle"

RefsIdle ==
    /\ refs = {}
    /\ rres = {}

ProxyIdle ==
    /\ forward = {}
    /\ backward = {}
    /\ procs = {}

MapsIdle ==
    /\ up = {}
    /\ down = {}
    /\ objs = {}
    /\ mcall = NoMapCall

InternIdle ==
    /\ FILTERS = {}
    /\ mutex = 0
    /\ threads = {}
    /\ issued = {}

TextIdle ==
    /\ nf = <<>>
    /\ printed = <<>>
    /\ reparsed = <<>>

PushIdle ==
    /\ ru = <<>>
    /\ hookrefs = {}
    /\ hookodb = {}
    /\ sent = <<>>
    /\ reply = <<>>

StepsIdle ==
    /\ winput = <<>>
    /\ wtx = <<>>
    /\ wknown = <<>>
    /\ n_new = 0
    /\ queue = <<>>
    /\ visited = <<>>
    /\ wres = <<>>
    /\ wpc = "idle"

CreateIdle ==
    /\ crepo = <<>>
    /\ corig = <<>>
    /\ cparents = <<>>
    /\ ctree = {}
    /\ cspec = <<>>
    /\ cret = <<>>

OriginalIdle ==
    fo = <<>>

RefreshIdle ==
    /\ known_views = <<>>
    /\ refresh = <<>>
    /\ skips = {}

ApplyIdle ==
    /\ acall = <<>>
    /\ frames = <<>>
    /\ aret = <<>>

NestIdle ==
    /\ nentry = <<>>
    /\ nframes = <<>>
    /\ ntx = <<>>
    /\ nret = <<>>
    /\ nsteps = 0

FetchIdle ==
    /\ credential_cache = <<>>
    /\ fetching = {}
    /\ fetch_push_pool = <<>>
    /\ requests = <<>>
    /\ passed = {}

LocksIdle ==
    /\ workers = <<>>
    /\ policy = ""

IdleButTree == RepoIdle /\ WalkIdle /\ UnapplyIdle /\ RefsIdle /\ ProxyIdle /\ MapsIdle /\ InternIdle /\ TextIdle /\ PushIdle /\ StepsIdle /\ CreateIdle /\ OriginalIdle /\ RefreshIdle /\ ApplyIdle /\ NestIdle /\ FetchIdle /\ LocksIdle

IdleButWalk == TreeIdle /\ UnapplyIdle /\ RefsIdle /\ ProxyIdle /\ MapsIdle /\ InternIdle /\ TextIdle /\ PushIdle /\ StepsIdle /\ CreateIdle /\ OriginalIdle /\ RefreshIdle /\ ApplyIdle /\ NestIdle /\ FetchIdle /\ LocksIdle

IdleButUnapply == TreeIdle /\ RefsIdle /\ ProxyIdle /\ MapsIdle /\ InternIdle /\ TextIdle /\ PushIdle /\ StepsIdle /\ CreateIdle /\ OriginalIdle /\ RefreshIdle /\ ApplyIdle /\ NestIdle /\ FetchIdle /\ LocksIdle

IdleButRefs == TreeIdle /\ WalkIdle /\ UnapplyIdle /\ ProxyIdle /\ MapsIdle /\ InternIdle /\ TextIdle /\ PushIdle /\ StepsIdle /\ CreateIdle /\ OriginalIdle /\ RefreshIdle /\ ApplyIdle /\ NestIdle /\ FetchIdle /\ LocksIdle

IdleButProxy == TreeIdle /\ WalkIdle /\ UnapplyIdle /\ MapsIdle /\ InternIdle /\ TextIdle /\ PushIdle /\ StepsIdle /\ CreateIdle /\ OriginalIdle /\ RefreshIdle /\ ApplyIdle /\ NestIdle /\ FetchIdle /\ LocksIdle

IdleButMaps ==
    /\ TreeIdle /\ RepoIdle /\ WalkIdle /\ UnapplyIdle /\ RefsIdle /\ ProxyIdle
    /\ InternIdle /\ TextIdle /\ PushIdle /\ StepsIdle /\ CreateIdle /\ OriginalIdle /\ RefreshIdle /\ ApplyIdle /\ NestIdle /\ FetchIdle /\ LocksIdle

IdleButIntern ==
    /\ TreeIdle /\ RepoIdle /\ WalkIdle /\ UnapplyIdle /\ RefsIdle /\ ProxyIdle
    /\ MapsIdle /\ TextIdle /\ PushIdle /\ StepsIdle /\ CreateIdle /\ OriginalIdle /\ RefreshIdle /\ ApplyIdle /\ NestIdle /\ FetchIdle /\ LocksIdle

IdleButText ==
    /\ TreeIdle /\ RepoIdle /\ WalkIdle /\ UnapplyIdle /\ RefsIdle /\ ProxyIdle
    /\ MapsIdle /\ InternIdle /\ PushIdle /\ StepsIdle /\ CreateIdle /\ OriginalIdle /\ RefreshIdle /\ ApplyIdle /\ NestIdle /\ FetchIdle /\ LocksIdle

IdleButPush ==
    /\ TreeIdle /\ RepoIdle /\ WalkIdle /\ UnapplyIdle /\ RefsIdle /\ ProxyIdle
    /\ MapsIdle /\ InternIdle /\ TextIdle /\ StepsIdle /\ CreateIdle /\ OriginalIdle /\ RefreshIdle /\ ApplyIdle /\ NestIdle /\ FetchIdle /\ LocksIdle

IdleButSteps ==
    /\ TreeIdle /\ WalkIdle /\ UnapplyIdle /\ RefsIdle /\ ProxyIdle
    /\ MapsIdle /\ InternIdle /\ TextIdle /\ PushIdle /\ CreateIdle /\ OriginalIdle /\ RefreshIdle /\ ApplyIdle /\ NestIdle /\ FetchIdle /\ LocksIdle

IdleButCreate ==
    /\ TreeIdle /\ RepoIdle /\ WalkIdle /\ UnapplyIdle /\ RefsIdle /\ ProxyIdle
    /\ MapsIdle /\ InternIdle /\ TextIdle /\ PushIdle /\ StepsIdle /\ OriginalIdle /\ RefreshIdle /\ ApplyIdle /\ NestIdle /\ FetchIdle /\ LocksIdle

IdleButOriginal ==
    /\ TreeIdle /\ WalkIdle /\ UnapplyIdle /\ RefsIdle /\ ProxyIdle /\ MapsIdle
    /\ InternIdle /\ TextIdle /\ PushIdle /\ StepsIdle /\ CreateIdle /\ RefreshIdle /\ ApplyIdle /\ NestIdle /\ FetchIdle /\ LocksIdle

IdleButRefresh ==
    /\ TreeIdle /\ RepoIdle /\ WalkIdle /\ UnapplyIdle /\ RefsIdle /\ ProxyIdle /\ MapsIdle
    /\ InternIdle /\ TextIdle /\ PushIdle /\ StepsIdle /\ CreateIdle /\ OriginalIdle /\ ApplyIdle /\ NestIdle /\ FetchIdle /\ LocksIdle

IdleButApply ==
    /\ TreeIdle /\ RepoIdle /\ WalkIdle /\ UnapplyIdle /\ RefsIdle /\ ProxyIdle /\ MapsIdle
    /\ InternIdle /\ TextIdle /\ PushIdle /\ StepsIdle /\ CreateIdle /\ OriginalIdle /\ RefreshIdle /\ NestIdle /\ FetchIdle /\ LocksIdle

IdleButNest ==
    /\ TreeIdle /\ WalkIdle /\ UnapplyIdle /\ RefsIdle /\ ProxyIdle /\ MapsIdle /\ InternIdle
    /\ TextIdle /\ PushIdle /\ StepsIdle /\ CreateIdle /\ OriginalIdle /\ RefreshIdle /\ ApplyIdle /\ FetchIdle /\ LocksIdle

IdleButFetch ==
    /\ TreeIdle /\ RepoIdle /\ WalkIdle /\ UnapplyIdle /\ RefsIdle /\ ProxyIdle /\ MapsIdle /\ InternIdle
    /\ TextIdle /\ PushIdle /\ StepsIdle /\ CreateIdle /\ OriginalIdle /\ RefreshIdle /\ ApplyIdle /\ NestIdle /\ LocksIdle

IdleButLocks ==
    /\ TreeIdle /\ RepoIdle /\ WalkIdle /\ UnapplyIdle /\ RefsIdle /\ ProxyIdle /\ MapsIdle /\ InternIdle /\ TextIdle
    /\ PushIdle /\ StepsIdle /\ CreateIdle /\ OriginalIdle /\ RefreshIdle /\ ApplyIdle /\ NestIdle /\ FetchIdle

InitTree ==
    /\ IdleButTree
    /\ filter \in Filters
    /\ tree \in Trees
    /\ parent_tree \in ParentTrees
    /\ applied = None
    /\ unapplied = None
    /\ reapplied = None
    /\ tpc = "init"

\* apply(filter, tree)
CallApply ==
    /\ tpc = "init"
    /\ applied' = apply(filter, tree)
    /\ tpc' = "applied"
    /\ UNCHANGED <<filter, tree, parent_tree, unapplied, reapplied>>
    /\ UNCHANGED nonTreeVars

\* unapply(filter, tree, parent_tree), on the given tree or on the result
\* of the apply before
CallUnapply ==
    /\ \/ tpc = "init"
       \/ tpc = "applied" /\ applied.ok
    /\ unapplied' = unapply(filter, IF tpc = "init" THEN tree ELSE applied.tree,
                            parent_tree)
    /\ tpc' = IF tpc = "init" THEN "unapplied" ELSE "applied_unapplied"
    /\ UNCHANGED <<filter, tree, parent_tree, applied, reapplied>>
    /\ UNCHANGED nonTreeVars

\* apply(filter, unapply(...))
CallReapply ==
    /\ tpc \in {"unapplied", "applied_unapplied"}
    /\ unapplied.ok
    /\ reapplied' = apply(filter, unapplied.tree)
    /\ tpc' = IF tpc = "unapplied" THEN "roundtrip" ELSE "applied_roundtrip"
    /\ UNCHANGED <<filter, tree, parent_tree, applied, unapplied>>
    /\ UNCHANGED nonTreeVars

NextTree == CallApply \/ CallUnapply \/ CallReapply

SpecTree == InitTree /\ [][NextTree]_vars

(***************************************************************************)
(* Properties of the tree filter.                                          *)
(***************************************************************************)
RECURSIVE BuiltFrom(_, _)
BuiltFrom(f, ops) ==
    /\ f.op \in ops
    /\ \A i \in 1..Len(f.kids) : BuiltFrom(f.kids[i], ops)

\* the filters C1 names: Nop, Empty, File, Subdir, Prefix, Glob, Chain,
\* Compose and Subtract(Nop, _)
RECURSIVE InClaimedClass(_)
InClaimedClass(f) ==
    /\ f.op \in {"Nop", "Empty", "File", "Subdir", "Prefix", "Glob",
                 "Chain", "Compose", "Subtract"}
    /\ f.op = "Subtract" => f.kids[1] = Nop
    /\ \A i \in 1..Len(f.kids) : InClaimedClass(f.kids[i])

InChainClass(f) ==
    BuiltFrom(f, {"Nop", "Empty", "File", "Subdir", "Prefix", "Chain"})

RECURSIVE HoldsIrreversible(_)
HoldsIrreversible(f) ==
    \/ f.op \in {"Dirs", "Fold", "Squash"}
    \/ f.op = "Subtract" /\ f.kids[1] # Nop
    \/ /\ f.op \in {"Chain", "Compose"}
       /\ \E i \in 1..Len(f.kids) : HoldsIrreversible(f.kids[i])

\* C7: unapply of a filter without an inverse, alone or inside a Chain or a
\* Compose, fails with "filter not reversible" and returns no tree.
C7_NotReversible ==
    (tpc \in {"unapplied", "applied_unapplied"} /\ HoldsIrreversible(filter))
        => (~unapplied.ok /\ unapplied.err = NotReversible
            /\ unapplied.tree = EmptyTree)

C7_Witness ==
    /\ tpc = "unapplied"
    /\ filter.op = "Compose"
    /\ filter.kids[2] = Fold
    /\ tree # EmptyTree
    /\ ~unapplied.ok

(***************************************************************************)
(* Commits.  A commit id is the commit's content; `sig` tells whether the  *)
(* commit object carries a signature (repo.commit never writes one), and   *)
(* `meta` stands for author, committer, message and commit time.           *)
(***************************************************************************)
MkCommit(m, s, t, ps) == [meta |-> m, sig |-> s, tree |-> t, parents |-> ps]

\* git2::Oid::zero()
Zero == MkCommit(0, FALSE, {}, <<>>)

Range(s) == {s[i] : i \in DOMAIN s}

Reverse(s) == [i \in 1..Len(s) |-> s[Len(s) + 1 - i]]

RECURSIVE Ancestors(_)
\* the commits reachable from c, c included
Ancestors(c) == {c} \cup UNION {Ancestors(p) : p \in Range(c.parents)}

AncestorsOfAll(cs) == UNION {Ancestors(c) : c \in cs}

RECURSIVE TopoSort(_, _)
\* git2::Sort::TOPOLOGICAL: no commit before all of its children are shown,
\* the newer commit first among those that are ready
TopoSort(S, acc) ==
    IF S = {} THEN acc ELSE
    LET ready == {c \in S : \A d \in S : c \notin Range(d.parents)}
        pick == CHOOSE c \in ready : \A d \in ready : d.meta <= c.meta
    IN  TopoSort(S \ {pick}, Append(acc, pick))

\* repo.revwalk() with push(tip) and hide(k) for every k in hidden
RevWalk(tip, hidden) == TopoSort(Ancestors(tip) \ AncestorsOfAll(hidden), <<>>)

\* the repository and the transaction a computation runs in
MkState(c, o) == [cache |-> c, odb |-> o]

\* repo.find_commit(id).is_ok()
find_commit(st, id) == id \in st.odb

\* JoshResult<git2::Oid>, with the state the call leaves behind
CRes(id, st) == [ok |-> TRUE, id |-> id, st |-> st, err |-> ""]
CErr(msg, st) == [ok |-> FALSE, id |-> Zero, st |-> st, err |-> msg]

\* JoshResult<Vec<git2::Oid>>
LRes(ids, st) == [ok |-> TRUE, ids |-> ids, st |-> st, err |-> ""]
LErr(msg, st) == [ok |-> FALSE, ids |-> <<>>, st |-> st, err |-> msg]

(***************************************************************************)
(* The filter cache: entries (filter, original) -> filtered.               *)
(***************************************************************************)
CacheEntry(f, from, to) == [filter |-> f, from |-> from, to |-> to]

\* an entry whose object is gone from the object store is no entry
TxHits(st, f, c) ==
    {e \in st.cache : e.filter = f /\ e.from = c
                      /\ (e.to = Zero \/ e.to \in st.odb)}

\* transaction.get(filter, id).is_some()
TxHas(st, f, c) == TxHits(st, f, c) # {}

\* transaction.get(filter, id).unwrap()
TxGet(st, f, c) == (CHOOSE e \in TxHits(st, f, c) : TRUE).to

\* transaction.insert(filter, from, to, true)
TxInsert(st, f, from, to) ==
    [st EXCEPT !.cache = {e \in @ : ~(e.filter = f /\ e.from = from)}
                         \cup {CacheEntry(f, from, to)}]

(***************************************************************************)
(* The commit filter (filter/mod.rs) and the history walk (history.rs).    *)
(***************************************************************************)
\* a slip: the parents are never taken for unchanged
all_equal_never(a, b) == FALSE

\* fn all_equal
all_equal(a, b) ==
    /\ Len(a) = Len(b)
    /\ \A i \in 1..Len(a) : a[i] = b[i]

\* pub fn rewrite_commit: everything from base except its tree and parents;
\* an unchanged commit is returned as it is, signature included
rewrite_commit(st, base, parents, t) ==
    IF base.tree = t /\ all_equal(base.parents, parents)
    THEN CRes(base, st)
    ELSE LET created == MkCommit(base.meta, FALSE, t, parents) IN
         CRes(created, [st EXCEPT !.odb = @ \cup {created}])

\* a slip: one original parent with the tree of the commit is enough
select_parent_commits_any(original_commit, filtered_tree, filtered_parent_commits) ==
    LET affects_filtered ==
            \E i \in 1..Len(filtered_parent_commits) :
                filtered_tree # filtered_parent_commits[i].tree
        all_diffs_empty ==
            \E i \in 1..Len(original_commit.parents) :
                original_commit.parents[i].tree = original_commit.tree
    IN  IF affects_filtered \/ all_diffs_empty
        THEN filtered_parent_commits
        ELSE <<>>

\* a slip: the filtered parents are always kept
select_parent_commits_keep(original_commit, filtered_tree, filtered_parent_commits) ==
    filtered_parent_commits

\* fn select_parent_commits
select_parent_commits(original_commit, filtered_tree, filtered_parent_commits) ==
    LET affects_filtered ==
            \E i \in 1..Len(filtered_parent_commits) :
                filtered_tree # filtered_parent_commits[i].tree
        all_diffs_empty ==
            \A i \in 1..Len(original_commit.parents) :
                original_commit.parents[i].tree = original_commit.tree
    IN  IF affects_filtered \/ all_diffs_empty
        THEN filtered_parent_commits
        ELSE <<>>

\* repo.merge_base_many(ids).is_ok(): every id names a commit and the first
\* one shares an ancestor with one of the others
merge_base_many(st, ids) ==
    /\ \A i \in 1..Len(ids) : find_commit(st, ids[i])
    /\ Ancestors(ids[1])
         \cap AncestorsOfAll({ids[i] : i \in 2..Len(ids)}) # {}

\* treeops::is_empty_root
is_empty_root(t) == t = EmptyTree

NonZero(x) == x # Zero

HasFiles(x) == x.tree # EmptyTree

\* a slip: the null id whenever no filtered parent is left
create_filtered_commit2_null(st, original_commit, filtered_parent_ids, filtered_tree) ==
    LET is_initial_merge ==
            Len(filtered_parent_ids) > 1
            /\ ~merge_base_many(st, filtered_parent_ids)
        found == SelectSeq(filtered_parent_ids, NonZero)
        filtered_parent_commits ==
            IF is_initial_merge THEN SelectSeq(found, HasFiles) ELSE found
        selected == select_parent_commits(original_commit, filtered_tree,
                                          filtered_parent_commits)
    IN  IF \E i \in 1..Len(found) : ~find_commit(st, found[i])
        THEN CErr("object not found", st)
        ELSE IF /\ Len(selected) = 0
                /\ ~(Len(original_commit.parents) = 0
                     /\ is_empty_root(original_commit.tree))
        THEN CRes(IF Len(filtered_parent_commits) # 0
                  THEN filtered_parent_commits[1] ELSE Zero, st)
        ELSE rewrite_commit(st, original_commit, selected, filtered_tree)

\* fn create_filtered_commit2
create_filtered_commit2(st, original_commit, filtered_parent_ids, filtered_tree) ==
    LET is_initial_merge ==
            Len(filtered_parent_ids) > 1
            /\ ~merge_base_many(st, filtered_parent_ids)
        found == SelectSeq(filtered_parent_ids, NonZero)
        filtered_parent_commits ==
            IF is_initial_merge THEN SelectSeq(found, HasFiles) ELSE found
        selected == select_parent_commits(original_commit, filtered_tree,
                                          filtered_parent_commits)
    IN  IF \E i \in 1..Len(found) : ~find_commit(st, found[i])
        THEN CErr("object not found", st)
        ELSE IF /\ Len(selected) = 0
                /\ ~(Len(original_commit.parents) = 0
                     /\ is_empty_root(original_commit.tree))
                /\ Len(filtered_parent_commits) # 0
        THEN CRes(filtered_parent_commits[1], st)
        ELSE IF /\ Len(selected) = 0
                /\ ~(Len(original_commit.parents) = 0
                     /\ is_empty_root(original_commit.tree))
                /\ filtered_tree = EmptyTree
        THEN CRes(Zero, st)
        ELSE rewrite_commit(st, original_commit, selected, filtered_tree)

\* a slip: the result is not recorded
create_filtered_commit_unrecorded(st, original_commit, filtered_parent_ids, filtered_tree, filter_spec) ==
    create_filtered_commit2(st, original_commit, filtered_parent_ids, filtered_tree)

\* pub fn create_filtered_commit: the result is recorded in the transaction
create_filtered_commit(st, original_commit, filtered_parent_ids, filtered_tree, filter_spec) ==
    With(create_filtered_commit2(st, original_commit, filtered_parent_ids,
                                 filtered_tree),
         LAMBDA r :
            IF ~r.ok THEN r
            ELSE CRes(r.id, TxInsert(r.st, filter_spec, original_commit, r.id)))

\* the tree of a filtered commit, the empty tree where there is no commit
TreeOrEmpty(st, id) == IF find_commit(st, id) THEN id.tree ELSE EmptyTree

\* a slip: a cache hit yields the commit that was asked for
CachedAsInput(st, f, c) == c

\* the id a cache hit returns
Cached(st, f, c) == TxGet(st, f, c)

RECURSIVE apply_to_commit2(_, _, _), apply_to_commit(_, _, _), walk2(_, _, _)
RECURSIVE ApplyEach(_, _, _, _, _), WalkParents(_, _, _, _, _)
RECURSIVE ApplyWalk(_, _, _, _), FindKnown(_, _, _, _)

\* filters.iter().map(|f| apply_to_commit(*f, &commit, transaction)).collect()
ApplyEach(fs, i, c, st, acc) ==
    IF i > Len(fs) THEN LRes(acc, st) ELSE
    With(apply_to_commit(fs[i], c, st), LAMBDA r :
        IF ~r.ok THEN LErr(r.err, r.st)
        ELSE ApplyEach(fs, i + 1, c, r.st, Append(acc, r.id)))

\* commit.parents().map(|x| history::walk2(filter, x.id(), transaction)).collect()
WalkParents(f, ps, i, st, acc) ==
    IF i > Len(ps) THEN LRes(acc, st) ELSE
    With(walk2(f, ps[i], st), LAMBDA r :
        IF ~r.ok THEN LErr(r.err, r.st)
        ELSE WalkParents(f, ps, i + 1, r.st, Append(acc, r.id)))

RECURSIVE FoldTrees(_, _, _)
\* the Op::Fold loop: filtered_tree = tree::overlay(filtered_tree, t)
FoldTrees(ids, i, t) ==
    IF i > Len(ids) THEN t
    ELSE FoldTrees(ids, i + 1, Overlay(t, ids[i].tree))

\* let filtered_tree = match &to_op(filter) { ... }: the tree of the
\* filtered commit, as a tree result together with the state
FilteredTree(filt, c, st) ==
    CASE filt.op = "Compose" ->
            With(ApplyEach(filt.kids, 1, c, st, <<>>), LAMBDA filtered :
                IF ~filtered.ok THEN [res |-> Err(filtered.err), st |-> filtered.st]
                ELSE LET kept == SelectSeq(filtered.ids, NonZero) IN
                     [res |-> Ok(ComposeTrees([i \in 1..Len(kept) |-> kept[i].tree])),
                      st |-> filtered.st])
      [] filt.op = "Fold" ->
            With(WalkParents(filt, c.parents, 1, st, <<>>), LAMBDA ids :
                IF ~ids.ok THEN [res |-> Err(ids.err), st |-> ids.st]
                ELSE IF \E i \in 1..Len(ids.ids) : ~find_commit(ids.st, ids.ids[i])
                THEN [res |-> Err("object not found"), st |-> ids.st]
                ELSE [res |-> Ok(FoldTrees(ids.ids, 1, c.tree)), st |-> ids.st])
      [] filt.op = "Subtract" ->
            With(apply_to_commit(filt.kids[1], c, st), LAMBDA a :
            IF ~a.ok THEN [res |-> Err(a.err), st |-> a.st] ELSE
            With(apply_to_commit(filt.kids[2], c, a.st), LAMBDA b :
            IF ~b.ok THEN [res |-> Err(b.err), st |-> b.st] ELSE
            LET af == TreeOrEmpty(a.st, a.id)
                bf == TreeOrEmpty(b.st, b.id)
            IN
            With(unapply(filt.kids[2], bf, EmptyTree), LAMBDA bu :
            IF ~bu.ok THEN [res |-> bu, st |-> b.st] ELSE
            With(apply(filt.kids[1], bu.tree), LAMBDA ba :
            IF ~ba.ok THEN [res |-> ba, st |-> b.st]
            ELSE [res |-> Ok(SubtractTree(af, ba.tree)), st |-> b.st]))))
      [] OTHER -> [res |-> apply(filt, c.tree), st |-> st]

\* fn apply_to_commit2
apply_to_commit2(op, commit, st) ==
    With(optimize(op), LAMBDA filt :
    CASE filt.op = "Nop" -> CRes(commit, st)
      [] filt.op = "Empty" -> CRes(Zero, st)
      [] filt.op = "Chain" ->
            With(apply_to_commit(filt.kids[1], commit, st), LAMBDA r :
                IF ~r.ok THEN r
                ELSE IF find_commit(r.st, r.id)
                THEN apply_to_commit(filt.kids[2], r.id, r.st)
                ELSE CRes(Zero, r.st))
      [] filt.op = "Squash" -> rewrite_commit(st, commit, <<>>, commit.tree)
      [] OTHER ->
            IF TxHas(st, filt, commit) THEN CRes(Cached(st, filt, commit), st)
            ELSE
            With(FilteredTree(filt, commit, st), LAMBDA ft :
            IF ~ft.res.ok THEN CErr(ft.res.err, ft.st) ELSE
            With(WalkParents(filt, commit.parents, 1, ft.st, <<>>),
                 LAMBDA filtered_parent_ids :
                IF ~filtered_parent_ids.ok
                THEN CErr(filtered_parent_ids.err, filtered_parent_ids.st)
                ELSE create_filtered_commit(filtered_parent_ids.st, commit,
                                            filtered_parent_ids.ids,
                                            ft.res.tree, filt))))

\* pub fn apply_to_commit
apply_to_commit(f, commit, st) == apply_to_commit2(f, commit, st)

\* a slip: one pass over the history, nothing hidden
FindKnownOnePass(f, input, st, known) ==
    LET walk == RevWalk(input, {})
        Hit(c) == TxHas(st, f, c)
    IN  [known |-> SelectSeq(walk, Hit),
         n_new |-> Len(walk) - Len(SelectSeq(walk, Hit))]

\* fn find_known: the loop 'find_known, restarted with every known commit
\* it finds; the result is (known, n_new)
FindKnown(f, input, st, known) ==
    LET walk == RevWalk(input, Range(known))
        hit == {i \in 1..Len(walk) : TxHas(st, f, walk[i])}
    IN  IF hit = {} THEN [known |-> known, n_new |-> Len(walk)]
        ELSE LET i == CHOOSE j \in hit : \A k \in hit : j <= k IN
             FindKnown(f, input, st, Append(known, walk[i]))

find_known(f, input, st) == FindKnown(f, input, st, <<>>)

\* a slip: the commits come newest first
RevWalkUnreversed(tip, hidden) == RevWalk(tip, hidden)

\* repo.revwalk() with the sorting REVERSE | TOPOLOGICAL
RevWalkReverse(tip, hidden) == Reverse(RevWalk(tip, hidden))

\* a slip: the known commits are not hidden
FilteredTraversalUnhidden(input, known_ids) == RevWalkReverse(input, {})

\* let walk = { ... }: the revwalk of walk2, pushed at input, hiding known
FilteredTraversal(input, known_ids) == RevWalkReverse(input, Range(known_ids))

\* the loop of walk2 over the commits that are not known
ApplyWalk(f, walk, i, st) ==
    IF i > Len(walk) THEN CRes(Zero, st) ELSE
    With(apply_to_commit(f, walk[i], st), LAMBDA r :
        IF ~r.ok THEN r ELSE ApplyWalk(f, walk, i + 1, r.st))

\* pub fn walk2
walk2(f, input, st) ==
    IF ~find_commit(st, input) THEN CRes(Zero, st)
    ELSE IF TxHas(st, f, input) THEN CRes(Cached(st, f, input), st)
    ELSE LET walk == FilteredTraversal(input, find_known(f, input, st).known)
         IN  With(ApplyWalk(f, walk, 1, st), LAMBDA done :
                 IF ~done.ok THEN done
                 ELSE apply_to_commit(f, input, done.st))

\* pub fn walk
walk(f, input, st) == walk2(f, input, st)

(***************************************************************************)
(* Upstream histories.  All upstream commits are signed; meta orders them  *)
(* by commit time.                                                         *)
(***************************************************************************)
T0 == EmptyTree
T1 == {Entry(<<"a", "a">>, 1), Entry(<<"b">>, 1)}
T2 == {Entry(<<"a", "a">>, 2), Entry(<<"b">>, 1)}    \* T1 changed below a
T3 == {Entry(<<"a", "a">>, 1), Entry(<<"b">>, 2)}    \* T1 changed outside a

CommitTrees == {T0, T1, T2, T3}

Root(m, t) == MkCommit(m, TRUE, t, <<>>)

\* three commits in a row
Linear(t1, t2, t3) ==
    LET r == Root(1, t1)
        a == MkCommit(2, TRUE, t2, <<r>>)
    IN  MkCommit(3, TRUE, t3, <<a>>)

\* two branches from one root, merged
Merged(t1, t2, t3) ==
    LET r == Root(1, T1)
        a == MkCommit(2, TRUE, t1, <<r>>)
        b == MkCommit(3, TRUE, t2, <<r>>)
    IN  MkCommit(4, TRUE, t3, <<a, b>>)

\* two histories without a common ancestor, merged
InitialMerge(t1, t2, t3) ==
    MkCommit(3, TRUE, t3, <<Root(1, t1), Root(2, t2)>>)

Tips ==
    {Linear(T1, t2, t3) : t2 \in {T1, T2, T3}, t3 \in {T0, T2, T3}}
    \cup {Merged(t1, t2, T2) : t1 \in {T2, T3}, t2 \in {T1, T3}}
    \cup {InitialMerge(t1, t2, t3) : t1 \in {T0, T1}, t2 \in {T0, T2}, t3 \in {T0, T2}}

WalkFilters ==
    { Nop, Empty, Fold, Squash, Dirs,
      Subdir(<<"a">>), Prefix(<<"a">>), File(<<"b">>), Glob(<<"**">>),
      Compose(<<Subdir(<<"a">>), File(<<"b">>)>>),
      Compose(<<File(<<"b">>), Glob(<<"a", "*">>)>>),
      Subtract(Nop, File(<<"b">>)),
      Subtract(Nop, Empty),
      Subtract(Nop, Fold),
      Chain(Subdir(<<"a">>), Prefix(<<"a">>)),
      Chain(Chain(Nop, Subdir(<<"a">>)), Nop),
      Chain(Prefix(<<"a">>), Chain(Subdir(<<"a">>), Glob(<<"**">>))) }

\* the state of a repository that holds the history g and no cache
FreshOf(g) == MkState({}, g)

Fresh == FreshOf(graph)

\* the keys the entries for f are looked up with: walk2 takes the filter as
\* it is given, apply_to_commit2 its optimized form
CacheKeys(f) == {f, optimize(f)}

\* the true mapping (f', c') -> apply_to_commit(f', c') for the history g
TrueEntries(f, g) ==
    {CacheEntry(k, c, apply_to_commit(k, c, FreshOf(g)).id) :
        <<k, c>> \in {x \in CacheKeys(f) \X g :
                        apply_to_commit(x[1], x[2], FreshOf(g)).ok}}

RECURSIVE SubsetsUpTo(_, _)
SubsetsUpTo(S, n) ==
    IF n = 0 THEN {{}}
    ELSE LET P == SubsetsUpTo(S, n - 1) IN
         P \cup {q \cup {e} : q \in P, e \in S}

MaxSeeded == 1       \* cache entries a repository starts with

\* the objects the entries of a cache refer to
ObjectsOf(entries) == AncestorsOfAll({e.to : e \in entries} \ {Zero})

InitWalk ==
    /\ IdleButWalk
    /\ \E tip \in Tips : graph = Ancestors(tip)
    /\ cfilter \in WalkFilters
    /\ cache \in SubsetsUpTo(TrueEntries(cfilter, graph), MaxSeeded)
    /\ odb = graph \cup ObjectsOf(cache)
    /\ last = NoCall

Called(op, c, r) ==
    [op |-> op, commit |-> c, warm |-> cache # {}, ok |-> r.ok, id |-> r.id,
     err |-> r.err]

\* history::walk on a commit of the upstream history; the entries of the
\* transaction reach the cache when the walk succeeds
Walk ==
    \E c \in graph :
        \E r \in {walk(cfilter, c, MkState(cache, odb))} :
        /\ last' = Called("walk", c, r)
        /\ odb' = r.st.odb
        /\ cache' = IF r.ok THEN r.st.cache ELSE cache
        /\ UNCHANGED <<graph, cfilter>>
        /\ UNCHANGED nonWalkVars

\* filters::apply_to_commit on a commit of the upstream history
ApplyToCommit ==
    \E c \in graph :
        \E r \in {apply_to_commit(cfilter, c, MkState(cache, odb))} :
        /\ last' = Called("apply_to_commit", c, r)
        /\ odb' = r.st.odb
        /\ cache' = IF r.ok THEN r.st.cache ELSE cache
        /\ UNCHANGED <<graph, cfilter>>
        /\ UNCHANGED nonWalkVars

\* git gc: the filtered commits, which no reference holds, are gone
ExternalGc ==
    /\ odb # graph
    /\ odb' = graph
    /\ UNCHANGED <<graph, cache, cfilter, last>>
    /\ UNCHANGED nonWalkVars

NextWalk == Walk \/ ApplyToCommit \/ ExternalGc

SpecWalk == InitWalk /\ [][NextWalk]_vars

\* the result of the same call in a repository without cache entries
FreshResult(op, c) ==
    IF op = "walk" THEN walk(cfilter, c, Fresh)
    ELSE apply_to_commit(cfilter, c, Fresh)

\* every entry of the cache is an entry of the true mapping
CacheConsistent ==
    \A e \in cache :
        LET r == apply_to_commit(e.filter, e.from, Fresh) IN
        r.ok /\ r.id = e.to

KeepsTree(c) == apply(cfilter, c.tree) = Ok(c.tree)

KeepsParents(c) ==
    \A i \in 1..Len(c.parents) :
        LET r == walk(cfilter, c.parents[i], Fresh) IN
        r.ok /\ r.id = c.parents[i]

\* a merge of histories without a merge base, one of them with an empty tree
IsInitialMergeOfEmpty(c) ==
    /\ Len(c.parents) > 1
    /\ ~merge_base_many(Fresh, c.parents)
    /\ \E i \in 1..Len(c.parents) : c.parents[i].tree = EmptyTree

BmHas(bm, k) == \E e \in bm : e.key = k

BmGet(bm, k) == (CHOOSE e \in bm : e.key = k).val

BmInsert(bm, k, v) == {e \in bm : e.key # k} \cup {[key |-> k, val |-> v]}

\* JoshResult<git2::Oid> of find_original, with bm and the objects it leaves
FRes(id, bm, o) == [ok |-> TRUE, id |-> id, bm |-> bm, odb |-> o, err |-> ""]
FErr(msg, bm, o) == [ok |-> FALSE, id |-> Zero, bm |-> bm, odb |-> o, err |-> msg]

RECURSIVE SearchOriginal(_, _, _, _, _, _, _)
\* the loop of find_original over the ancestors of contained_in
SearchOriginal(pc, bm, o, f, originals, i, filtered) ==
    IF i > Len(originals) THEN FRes(Zero, bm, o) ELSE
    With(apply_to_commit(f, originals[i], MkState(pc, o)), LAMBDA r :
        IF ~r.ok THEN FErr(r.err, bm, r.st.odb)
        ELSE IF filtered = r.id
        THEN FRes(originals[i], BmInsert(bm, filtered, originals[i]), r.st.odb)
        ELSE SearchOriginal(pc, bm, r.st.odb, f, originals, i + 1, filtered))

\* pub fn find_original; pc is the cache the transactions read
find_original(pc, bm, o, f, contained_in, filtered) ==
    IF contained_in = Zero THEN FRes(Zero, bm, o)
    ELSE IF BmHas(bm, filtered) THEN FRes(BmGet(bm, filtered), bm, o)
    ELSE With(walk(f, contained_in, MkState(pc, o)), LAMBDA w :
         IF ~w.ok THEN FErr(w.err, bm, w.st.odb) ELSE
         LET bm1 == IF w.id # Zero THEN BmInsert(bm, contained_in, w.id) ELSE bm IN
         IF ~find_commit(w.st, contained_in)
         THEN FErr("object not found", bm1, w.st.odb)
         ELSE SearchOriginal(pc, bm1, w.st.odb, f, RevWalk(contained_in, {}), 1,
                             filtered))

RECURSIVE OriginalParents(_, _, _, _, _, _, _, _)
\* let original_parents = filtered_parent_ids.iter().map(find_original)
\*     .filter(non-zero).map(find_commit).collect()
OriginalParents(pc, bm, o, f, unfiltered_old, ids, i, acc) ==
    IF i > Len(ids) THEN [ok |-> TRUE, ids |-> acc, bm |-> bm, odb |-> o, err |-> ""]
    ELSE
    With(find_original(pc, bm, o, f, unfiltered_old, ids[i]), LAMBDA r :
        IF ~r.ok
        THEN [ok |-> FALSE, ids |-> <<>>, bm |-> r.bm, odb |-> r.odb, err |-> r.err]
        ELSE IF r.id = Zero
        THEN OriginalParents(pc, r.bm, r.odb, f, unfiltered_old, ids, i + 1, acc)
        ELSE IF r.id \notin r.odb
        THEN [ok |-> FALSE, ids |-> <<>>, bm |-> r.bm, odb |-> r.odb,
              err |-> "object not found"]
        ELSE OriginalParents(pc, r.bm, r.odb, f, unfiltered_old, ids, i + 1,
                             Append(acc, r.id)))

\* a slip: one candidate tree per original parent, equal ones not merged
CountPerParent(trees) == Len(trees)

\* new_trees.len(), new_trees being a HashSet
CountTrees(trees) == Cardinality(Range(trees))

\* enum UnapplyFilter and the error of the JoshResult, with what the call
\* leaves behind: bm, the objects, and for every commit it handled the
\* candidate trees and the rewritten commit
Done(id, bm, o, trace) ==
    [kind |-> "Done", id |-> id, n |-> 0, bm |-> bm, odb |-> o,
     trace |-> trace, err |-> ""]
RejectMerge(n, bm, o, trace) ==
    [kind |-> "RejectMerge", id |-> Zero, n |-> n, bm |-> bm, odb |-> o,
     trace |-> trace, err |-> ""]
UErr(msg, bm, o, trace) ==
    [kind |-> "Err", id |-> Zero, n |-> 0, bm |-> bm, odb |-> o,
     trace |-> trace, err |-> msg]

Handled(c, candidates, rewritten) ==
    [commit |-> c, candidates |-> candidates, rewritten |-> rewritten]

RECURSIVE UnapplyLoop(_, _, _, _, _, _, _, _, _)
\* for rev in walk { ... } of unapply_filter
UnapplyLoop(pc, bm, o, f, unfiltered_old, revs, i, ret, trace) ==
    IF i > Len(revs) THEN Done(ret, bm, o, trace) ELSE
    LET module_commit == revs[i] IN
    IF BmHas(bm, module_commit)
    THEN UnapplyLoop(pc, bm, o, f, unfiltered_old, revs, i + 1, ret, trace)
    ELSE
    With(OriginalParents(pc, bm, o, f, unfiltered_old, module_commit.parents,
                         1, <<>>),
         LAMBDA original_parents :
    IF ~original_parents.ok
    THEN UErr(original_parents.err, original_parents.bm, original_parents.odb, trace)
    ELSE
    LET ps == original_parents.ids IN
    With([j \in 1..Len(ps) |-> unapply(f, module_commit.tree, ps[j].tree)],
         LAMBDA results :
    With([j \in 1..Len(ps) |-> results[j].tree], LAMBDA new_trees :
    With(CountTrees(new_trees), LAMBDA parent_count :
    IF \E j \in 1..Len(ps) : ~results[j].ok
    THEN UErr("Can't apply", original_parents.bm, original_parents.odb, trace)
    ELSE IF parent_count > 1
    THEN RejectMerge(parent_count, original_parents.bm, original_parents.odb,
                     Append(trace, Handled(module_commit, new_trees, Zero)))
    ELSE
    With(IF parent_count = 1 THEN results[1]
         ELSE unapply(f, module_commit.tree, EmptyTree),
         LAMBDA new_tree :
    IF ~new_tree.ok
    THEN UErr(new_tree.err, original_parents.bm, original_parents.odb, trace)
    ELSE
    With(rewrite_commit(MkState(pc, original_parents.odb), module_commit,
                        ps, new_tree.tree),
         LAMBDA rw :
        UnapplyLoop(pc, BmInsert(original_parents.bm, module_commit, rw.id),
                    rw.st.odb, f, unfiltered_old, revs, i + 1, rw.id,
                    Append(trace, Handled(module_commit, new_trees, rw.id)))))))))

\* the commits unapply_filter walks: from new, hiding old if old is a commit
UnapplyWalk(o, old, new) ==
    Reverse(RevWalk(new, IF old \in o THEN {old} ELSE {}))

\* pub fn unapply_filter
unapply_filter(pc, o, filterobj, unfiltered_old, old, new) ==
    IF new \notin o THEN UErr("object not found", {}, o, <<>>) ELSE
    With(find_original(pc, {}, o, filterobj, unfiltered_old, new), LAMBDA first :
        IF ~first.ok THEN UErr(first.err, first.bm, first.odb, <<>>)
        ELSE UnapplyLoop(pc, first.bm, first.odb, filterobj, unfiltered_old,
                         UnapplyWalk(o, old, new), 1, first.id, <<>>))

(***************************************************************************)
(* A push: the history is fetched through the filter, the client commits   *)
(* on top of what it fetched and pushes, the proxy calls unapply_filter.   *)
(***************************************************************************)
T4 == {Entry(<<"a", "a">>, 2), Entry(<<"b">>, 2)}    \* T2 changed outside a
T5 == {Entry(<<"a", "a">>, 3), Entry(<<"b">>, 2)}
T7 == {Entry(<<"a", "a">>, 3), Entry(<<"b">>, 1)}    \* T2 changed below a

UnapplyTips ==
    { Linear(T1, T2, T4), Linear(T1, T2, T7),
      Merged(T2, T5, T5), Merged(T2, T7, T7) }

UnapplyFilters == {Subdir(<<"a">>), Prefix(<<"a">>), File(<<"b">>), Nop, Fold}

\* the trees of the commits a client makes
P1 == {Entry(<<"a">>, 3)}
P2 == {Entry(<<"a", "a">>, 3), Entry(<<"b">>, 1)}

PushTrees == {P1, P2}

\* the newest commit of a history
Tip(g) == CHOOSE c \in g : \A d \in g : c \notin Range(d.parents)

\* the filtered commits the client has fetched
Fetched == IF last.ok /\ last.id # Zero THEN Ancestors(last.id) ELSE {}

ParentLists(cs) ==
    {<<>>} \cup {<<p>> : p \in cs}
    \cup {<<x[1], x[2]>> : x \in {y \in cs \X cs : y[1].meta > y[2].meta}}

\* the commits a client can make on top of the commits cs
ClientCommits(cs) ==
    {MkCommit(8, FALSE, t, ps) : t \in PushTrees, ps \in ParentLists(cs)}

NoPush == [new |-> Zero, old |-> Zero, unfiltered_old |-> Zero]

InitUnapply ==
    /\ IdleButUnapply
    /\ \E tip \in UnapplyTips : graph = Ancestors(tip)
    /\ cfilter \in UnapplyFilters
    /\ cache = {}
    /\ odb = graph
    /\ last = NoCall
    /\ push = NoPush
    /\ ures = UErr("not called", {}, {}, <<>>)
    /\ upc = "init"

\* the client fetches: history::walk on the tip of the upstream history
Fetch ==
    /\ upc = "init"
    /\ \E r \in {walk(cfilter, Tip(graph), MkState(cache, odb))} :
        /\ last' = Called("walk", Tip(graph), r)
        /\ odb' = r.st.odb
        /\ cache' = IF r.ok THEN r.st.cache ELSE cache
    /\ upc' = "fetched"
    /\ UNCHANGED <<graph, cfilter, push, ures>>
    /\ UNCHANGED nonUnapplyVars

\* the client pushes a commit it has fetched, a commit of its own, or two
Push ==
    /\ upc = "fetched"
    /\ \E n \in Fetched \cup ClientCommits(Fetched)
              \cup {MkCommit(9, FALSE, P2, <<c>>) : c \in ClientCommits(Fetched)} :
        /\ push' = [NoPush EXCEPT !.new = n]
        /\ odb' = odb \cup Ancestors(n)
    /\ upc' = "pushed"
    /\ UNCHANGED <<graph, cache, cfilter, last, ures>>
    /\ UNCHANGED nonUnapplyVars

\* history::unapply_filter(repo, filterobj, unfiltered_old, old, new)
UnapplyFilter ==
    /\ upc = "pushed"
    /\ \E old \in {Zero, push.new} \cup Fetched,
          unfiltered_old \in {Zero} \cup graph :
        \E r \in {unapply_filter(cache, odb, cfilter, unfiltered_old, old, push.new)} :
        /\ push' = [new |-> push.new, old |-> old, unfiltered_old |-> unfiltered_old]
        /\ ures' = r
        /\ odb' = r.odb
    /\ upc' = "done"
    /\ UNCHANGED <<graph, cache, cfilter, last>>
    /\ UNCHANGED nonUnapplyVars

NextUnapply == Fetch \/ Push \/ UnapplyFilter

SpecUnapply == InitUnapply /\ [][NextUnapply]_vars

\* C4 as stated: whenever unapply_filter returns Done(x), x is the original
\* commit recorded for new itself, for every choice of old
C4_DoneIsOriginalOfNew ==
    (upc = "done" /\ ures.kind = "Done") =>
        /\ BmHas(ures.bm, push.new)
        /\ ures.id = BmGet(ures.bm, push.new)

\* the handled commit h has two or more distinct candidate trees
Ambiguous(h) == Cardinality(Range(h.candidates)) >= 2

\* C5: unapply_filter returns RejectMerge(n) exactly when it comes to a
\* commit whose resolved original parents give two or more distinct
\* candidate trees; n is their number, and neither that commit nor a later
\* one is rewritten
C5_RejectMerge ==
    upc = "done" =>
        LET tr == ures.trace IN
        /\ ures.kind = "RejectMerge" <=> \E i \in 1..Len(tr) : Ambiguous(tr[i])
        /\ \A i \in 1..(Len(tr) - 1) : ~Ambiguous(tr[i]) /\ tr[i].rewritten # Zero
        /\ ures.kind = "RejectMerge" =>
              LET h == tr[Len(tr)] IN
              /\ ures.n = Cardinality(Range(h.candidates))
              /\ ures.n >= 2
              /\ h.rewritten = Zero
              /\ ~BmHas(ures.bm, h.commit)
              /\ \A e \in ures.bm :
                    e.key \in Range(UnapplyWalk(odb, push.old, push.new))
                        => e.val # Zero

\* a pushed merge of two filtered commits whose originals differ outside the
\* filter, with a further commit on top of it, is rejected
C5_Witness ==
    /\ upc = "done"
    /\ ures.kind = "RejectMerge"
    /\ ures.n = 2
    /\ ures.trace[Len(ures.trace)].commit # push.new
    /\ Len(ures.trace[Len(ures.trace)].commit.parents) = 2

\* C6 as stated: with the null id for unfiltered_old, unapply_filter returns
\* BranchDoesNotExist and not Done
C6_BranchDoesNotExist ==
    (upc = "done" /\ push.unfiltered_old = Zero) =>
        (ures.kind = "BranchDoesNotExist" /\ ures.kind # "Done")

(***************************************************************************)
(* apply_filter_to_refs (history.rs).  A reference that does not exist     *)
(* has the target Zero.                                                    *)
(***************************************************************************)
SrcRefs == {"refs/heads/master", "refs/heads/dev"}

DstRefs == {"refs/namespaces/view/refs/heads/master",
            "refs/namespaces/view/refs/heads/dev"}

OtherRefs == {"refs/tags/v1"}

RefNames == SrcRefs \cup DstRefs \cup OtherRefs

\* refs: &[(String, String)]
RefPairs ==
    << <<"refs/heads/master", "refs/namespaces/view/refs/heads/master">>,
       <<"refs/heads/dev", "refs/namespaces/view/refs/heads/dev">> >>

\* a slip: the reference is written whatever the filtered commit is
ShouldSetAlways(filter_commit) == TRUE

\* if filter_commit != git2::Oid::zero() { repo.reference(...) }
ShouldSet(filter_commit) == filter_commit # Zero

\* what transform_commit did for one pair
Transformed(from, to, found, filter_commit, previous, counted, written) ==
    [from |-> from, to |-> to, found |-> found, filter_commit |-> filter_commit,
     previous |-> previous, counted |-> counted, written |-> written]

\* fn transform_commit; reference_ok tells whether repo.reference succeeds.
\* The result carries the references and the state the call leaves behind.
transform_commit(st, rf, filterobj, from_refsname, to_refname, reference_ok) ==
    IF rf[from_refsname] # Zero
    THEN With(apply_to_commit(filterobj, rf[from_refsname], st), LAMBDA r :
         LET previous == rf[to_refname]
             updated_count == IF r.id # previous THEN 1 ELSE 0
             written == ShouldSet(r.id) /\ reference_ok
         IN  IF ~r.ok
             THEN [ok |-> FALSE, count |-> 0, refs |-> rf, st |-> r.st, err |-> r.err,
                   did |-> Transformed(from_refsname, to_refname, TRUE, Zero,
                                       previous, FALSE, FALSE)]
             ELSE [ok |-> TRUE, count |-> updated_count,
                   refs |-> IF written THEN [rf EXCEPT ![to_refname] = r.id] ELSE rf,
                   st |-> r.st, err |-> "",
                   did |-> Transformed(from_refsname, to_refname, TRUE, r.id,
                                       previous, updated_count = 1, written)])
    ELSE [ok |-> TRUE, count |-> 0, refs |-> rf, st |-> st, err |-> "",
          did |-> Transformed(from_refsname, to_refname, FALSE, Zero,
                              rf[to_refname], FALSE, FALSE)]

RECURSIVE TransformEach(_, _, _, _, _, _, _, _)
\* for (k, v) in refs { updated_count += transform_commit(...)?; }
TransformEach(st, rf, filterobj, pairs, i, failing, updated_count, log) ==
    IF i > Len(pairs)
    THEN [ok |-> TRUE, count |-> updated_count, refs |-> rf, st |-> st,
          err |-> "", log |-> log]
    ELSE With(transform_commit(st, rf, filterobj, pairs[i][1], pairs[i][2],
                               pairs[i][2] \notin failing),
              LAMBDA t :
             IF ~t.ok
             THEN [ok |-> FALSE, count |-> 0, refs |-> t.refs, st |-> t.st,
                   err |-> t.err, log |-> Append(log, t.did)]
             ELSE TransformEach(t.st, t.refs, filterobj, pairs, i + 1, failing,
                                updated_count + t.count, Append(log, t.did)))

\* pub fn apply_filter_to_refs; failing are the references that
\* repo.reference cannot write
apply_filter_to_refs(st, rf, filterobj, pairs, failing) ==
    TransformEach(st, rf, filterobj, pairs, 1, failing, 0, <<>>)

Tb == {Entry(<<"b">>, 1)}                              \* nothing below a

RefTips == {Linear(Tb, T1, T2), Linear(T1, T2, T4)}

RefFilters == {Subdir(<<"a">>), Nop, Empty, Subtract(Nop, Fold)}

NoRefs == [n \in RefNames |-> Zero]

NotCalled ==
    [called |-> FALSE, ok |-> FALSE, count |-> 0, before |-> NoRefs,
     log |-> <<>>, err |-> ""]

InitRefs ==
    /\ IdleButRefs
    /\ \E tip \in RefTips : graph = Ancestors(tip)
    /\ cfilter \in RefFilters
    /\ cache = {}
    /\ odb = graph
    /\ \E d \in {Tip(graph), Zero} :
          refs = [n \in RefNames |->
                    IF n = "refs/heads/dev" THEN d
                    ELSE IF n \in DstRefs THEN Zero ELSE Tip(graph)]
    /\ rres = NotCalled

\* fetch_upstream: a branch of the upstream repository has moved, is new
\* or is gone
FetchUpstream ==
    /\ \E n \in SrcRefs, c \in {Tip(graph), Zero} \cup {x \in graph : x.parents = <<>>} :
          /\ refs[n] # c
          /\ refs' = [refs EXCEPT ![n] = c]
    /\ UNCHANGED <<graph, odb, cache, cfilter, rres>>
    /\ UNCHANGED nonRefsVars

\* history::apply_filter_to_refs(repo, filterobj, refs)
ApplyFilterToRefs ==
    /\ \E failing \in SUBSET DstRefs :
          \E r \in {apply_filter_to_refs(MkState(cache, odb), refs, cfilter,
                                       RefPairs, failing)} :
              /\ rres' = [called |-> TRUE, ok |-> r.ok, count |-> r.count,
                          before |-> refs, log |-> r.log, err |-> r.err]
              /\ refs' = r.refs
              /\ odb' = r.st.odb
              /\ cache' = IF r.ok THEN r.st.cache ELSE cache
    /\ UNCHANGED <<graph, cfilter>>
    /\ UNCHANGED nonRefsVars

NextRefs == FetchUpstream \/ ApplyFilterToRefs

SpecRefs == InitRefs /\ [][NextRefs]_vars

\* the pairs of the last call that the claim counts: the filtered commit is
\* not null, is not what dst_ref pointed to, and dst_ref was set to it
Updated ==
    {i \in 1..Len(rres.log) :
        /\ rres.log[i].found
        /\ rres.log[i].filter_commit # Zero
        /\ rres.log[i].filter_commit # rres.log[i].previous
        /\ rres.log[i].written}

\* C8 as stated: apply_filter_to_refs returns the number of pairs whose
\* filtered result is not null, differs from the previous target of dst_ref
\* and was written to dst_ref
C8_CountsUpdatedRefs ==
    (rres.called /\ rres.ok) => rres.count = Cardinality(Updated)

\* C9: apply_filter_to_refs deletes no reference; the dst_ref of a pair
\* whose source is missing or whose filtered commit is null keeps its
\* target, and so does every reference that is no dst_ref of a pair
C9_NeverDeletesRefs ==
    [][ApplyFilterToRefs =>
        /\ \A n \in RefNames : refs[n] # Zero => refs'[n] # Zero
        /\ \A n \in RefNames \ {RefPairs[i][2] : i \in 1..Len(RefPairs)} :
              refs'[n] = refs[n]
        /\ \A i \in 1..Len(rres'.log) :
              (~rres'.log[i].found \/ rres'.log[i].filter_commit = Zero)
                  => refs'[rres'.log[i].to] = refs[rres'.log[i].to]]_vars

\* a call that found a dst_ref set whose source now filters to the null id,
\* and another whose source is gone, and left both alone
C9_Witness ==
    /\ rres.called
    /\ rres.ok
    /\ \E i \in 1..Len(rres.log) :
          /\ rres.log[i].found
          /\ rres.log[i].filter_commit = Zero
          /\ rres.log[i].previous # Zero
          /\ refs[rres.log[i].to] = rres.log[i].previous
    /\ \E i \in 1..Len(rres.log) :
          /\ ~rres.log[i].found
          /\ rres.log[i].previous # Zero
          /\ refs[rres.log[i].to] = rres.log[i].previous

(***************************************************************************)
(* make_view_repo (josh-proxy.rs): every request filters the references    *)
(* into downstream maps of its own and merges them into the shared maps.   *)
(***************************************************************************)
Procs == {1, 2}

\* a slip: merge that keeps the entries of self
ViewMapsMergeKeep(self, other) ==
    self \cup {e \in other : ~\E x \in self : x.filter = e.filter /\ x.from = e.from}

\* ViewMaps::merge: the entries of other replace those of self
ViewMapsMerge(self, other) ==
    {e \in self : ~\E x \in other : x.filter = e.filter /\ x.from = e.from}
    \cup other

\* what a downstream map shows: its own entries, its upstream's otherwise
Downstream(upstream, own) == ViewMapsMerge(upstream, own)

\* the backward entries (filtered -> original) of forward entries
Backward(entries) ==
    {CacheEntry(e.filter, e.to, e.from) : e \in {x \in entries : x.to # Zero}}

\* the (from, to) pair of a request: the upstream branch and the reference
\* in the namespace of the request
PairsOf(p) ==
    << <<"refs/heads/master",
         IF p = 1 THEN "refs/namespaces/view/refs/heads/master"
         ELSE "refs/namespaces/view/refs/heads/dev">> >>

\* scratch::apply_view_to_refs(&scratch, &*viewobj, &refs, &mut fm, &mut bm):
\* the references are filtered; the entries the computation writes are in
\* fm and bm whether it completes or fails
apply_view_to_refs(o, rf, viewobj, pairs, upstream_fm, fm) ==
    With(apply_filter_to_refs(MkState(Downstream(upstream_fm, fm), o), rf,
                              viewobj, pairs, {}),
         LAMBDA r :
            LET written == r.st.cache \ upstream_fm IN
            [ok |-> r.ok, refs |-> r.refs, odb |-> r.st.odb,
             fm |-> written, bm |-> Backward(written)])

ProxyFilters ==
    {Subdir(<<"a">>), Compose(<<Subdir(<<"a">>), File(<<"b">>)>>),
     Subtract(Subdir(<<"a">>), Fold)}

\* the locks a request holds are among
\* "forward.read", "forward.write", "backward.write"
IdleProc ==
    [pc |-> "idle", view |-> Nop, fm |-> {}, bm |-> {}, ok |-> FALSE, holds |-> {}]

\* RwLock: the requests that hold lock l
Holders(l) == {p \in Procs : l \in procs[p].holds}

\* RwLock::read does not wait
CanRead(maps) == Holders(maps \o ".write") = {}

\* RwLock::write does not wait
CanWrite(maps) == Holders(maps \o ".write") = {} /\ Holders(maps \o ".read") = {}

InitProxy ==
    /\ IdleButProxy
    /\ \E tip \in RefTips : graph = Ancestors(tip)
    /\ cfilter = Nop
    /\ cache = {}
    /\ odb = graph
    /\ refs = [n \in RefNames |-> IF n \in DstRefs THEN Zero ELSE Tip(graph)]
    /\ rres = NotCalled
    /\ forward = {}
    /\ backward = {}
    /\ procs = [p \in Procs |-> IdleProc]

\* a request arrives: ViewMaps::new_downstream for bm and fm, build_view
NewDownstream(p) ==
    /\ procs[p].pc = "idle"
    /\ \E v \in ProxyFilters :
          procs' = [procs EXCEPT ![p] = [IdleProc EXCEPT !.pc = "started",
                                                         !.view = v]]
    /\ UNCHANGED <<forward, backward, repoVars, refsVars>>
    /\ UNCHANGED nonProxyVars

\* the walk looks up a commit its own maps do not hold: ViewMaps::has and
\* ViewMaps::get go on to upsteam.read().unwrap()
ReadLock(p) ==
    /\ procs[p].pc = "started"
    /\ CanRead("forward")
    /\ procs' = [procs EXCEPT ![p].pc = "reading", ![p].holds = {"forward.read"}]
    /\ UNCHANGED <<forward, backward, repoVars, refsVars>>
    /\ UNCHANGED nonProxyVars

\* the call of scratch::apply_view_to_refs; its outcome is not looked at
ApplyViewToRefs(p) ==
    /\ procs[p].pc = "reading"
    /\ \E r \in {apply_view_to_refs(odb, refs, procs[p].view, PairsOf(p),
                                    forward, procs[p].fm)} :
           /\ procs' = [procs EXCEPT ![p].pc = "computed", ![p].ok = r.ok,
                                     ![p].fm = r.fm, ![p].bm = r.bm,
                                     ![p].holds = {}]
           /\ refs' = r.refs
           /\ odb' = r.odb
    /\ UNCHANGED <<forward, backward, graph, cache, cfilter, rres>>
    /\ UNCHANGED nonProxyVars

\* the computation fails by a panic instead of a returned error: the stack
\* of the request unwinds, fm and bm are dropped and nothing is merged
Unwind(p) ==
    /\ procs[p].pc = "reading"
    /\ \E r \in {apply_view_to_refs(odb, refs, procs[p].view, PairsOf(p),
                                    forward, procs[p].fm)} :
           /\ ~r.ok
           /\ procs' = [procs EXCEPT ![p] = IdleProc]
           /\ refs' = r.refs
           /\ odb' = r.odb
    /\ UNCHANGED <<forward, backward, graph, cache, cfilter, rres>>
    /\ UNCHANGED nonProxyVars

\* let mut forward_maps = forward_maps.write().unwrap()
WriteLockForward(p) ==
    /\ procs[p].pc = "computed"
    /\ CanWrite("forward")
    /\ procs' = [procs EXCEPT ![p].pc = "locked_forward",
                              ![p].holds = {"forward.write"}]
    /\ UNCHANGED <<forward, backward, repoVars, refsVars>>
    /\ UNCHANGED nonProxyVars

\* let mut backward_maps = backward_maps.write().unwrap()
WriteLockBackward(p) ==
    /\ procs[p].pc = "locked_forward"
    /\ CanWrite("backward")
    /\ procs' = [procs EXCEPT ![p].pc = "locked",
                              ![p].holds = @ \cup {"backward.write"}]
    /\ UNCHANGED <<forward, backward, repoVars, refsVars>>
    /\ UNCHANGED nonProxyVars

\* forward_maps.merge(&fm), backward_maps.merge(&bm), and the end of the
\* block that holds the two write guards
MergeMaps(p) ==
    /\ procs[p].pc = "locked"
    /\ forward' = ViewMapsMerge(forward, procs[p].fm)
    /\ backward' = ViewMapsMerge(backward, procs[p].bm)
    /\ procs' = [procs EXCEPT ![p].pc = "done", ![p].holds = {}]
    /\ UNCHANGED <<repoVars, refsVars>>
    /\ UNCHANGED nonProxyVars

\* the request is answered; the next one may be for another view
Respond(p) ==
    /\ procs[p].pc = "done"
    /\ procs' = [procs EXCEPT ![p] = IdleProc]
    /\ UNCHANGED <<forward, backward, repoVars, refsVars>>
    /\ UNCHANGED nonProxyVars

NextProxy ==
    \/ \E p \in Procs : NewDownstream(p)
    \/ \E p \in Procs : ReadLock(p)
    \/ \E p \in Procs : ApplyViewToRefs(p)
    \/ \E p \in Procs : Unwind(p)
    \/ \E p \in Procs : WriteLockForward(p)
    \/ \E p \in Procs : WriteLockBackward(p)
    \/ \E p \in Procs : MergeMaps(p)
    \/ \E p \in Procs : Respond(p)

SpecProxy == InitProxy /\ [][NextProxy]_vars

\* C10 as stated: the entries a computation has buffered are merged into
\* the shared maps only if the computation completed successfully; a failed
\* computation leaves the shared maps as they are
C10_NoCacheWritesOfFailedWalk ==
    [][\A p \in Procs :
          (procs[p].pc = "locked" /\ ~procs[p].ok /\ procs'[p].pc = "done")
              => (forward' = forward /\ backward' = backward)]_vars

\* the request is in scratch::apply_view_to_refs
Walking(p) == procs[p].pc \in {"started", "reading"}

\* while its walk runs a computation holds no lock on the shared maps
NoLockInWalk == \A p \in Procs : Walking(p) => procs[p].holds = {}

\* a step of a walking computation leaves the shared maps as they are
NoWriteInWalk ==
    \A p \in Procs :
        (Walking(p) /\ procs'[p] # procs[p]) =>
            (forward' = forward /\ backward' = backward)

\* the shared maps change only in the one merge of a request that has
\* computed and holds both write locks
OneMergeUnderLocks ==
    (forward' # forward \/ backward' # backward) =>
        \E p \in Procs :
            /\ procs[p].pc = "locked"
            /\ procs[p].holds = {"forward.write", "backward.write"}
            /\ procs'[p].pc = "done"
            /\ forward' = ViewMapsMerge(forward, procs[p].fm)
            /\ backward' = ViewMapsMerge(backward, procs[p].bm)

\* the shared maps hold every entry the computations that have finished
\* produced
AllPublished ==
    \A p \in Procs :
        procs[p].pc = "done" =>
            (procs[p].fm \subseteq forward /\ procs[p].bm \subseteq backward)

\* C14 as stated: a walking computation takes no lock on and writes nothing
\* to the shared maps, every computation publishes its entries in one merge
\* under the write locks, and the shared maps hold every entry of the
\* computations that have finished
C14_LockFreeWalkSingleMerge ==
    /\ []NoLockInWalk
    /\ [][NoWriteInWalk]_vars
    /\ [][OneMergeUnderLocks]_vars
    /\ []AllPublished

\* what holds of C14: all of it but the walk taking no lock
C14_SingleMergeUnderWriteLocks ==
    /\ [][NoWriteInWalk]_vars
    /\ [][OneMergeUnderLocks]_vars
    /\ []AllPublished

(***************************************************************************)
(* ViewMaps (view_maps.rs): maps: viewstr -> (from -> to), and the         *)
(* upstream the reads fall through to.  A ViewMaps value is the record of  *)
(* its own entries and of its upstream, <<>> for None.                     *)
(***************************************************************************)
MaxMapEntries == 1   \* entries set in one layer

MapViews == {":/a", ":/b"}

O1 == MkCommit(1, TRUE, T1, <<>>)
O2 == MkCommit(2, TRUE, T2, <<>>)
X1 == MkCommit(1, FALSE, T0, <<>>)

\* the original ids that are looked up, and the filtered ids they map to
MapFrom == {O1, O2}
MapTo == {Zero, X1}

\* ViewMaps::new
ViewMapsNew(maps) == [maps |-> maps, upsteam |-> <<>>]

\* ViewMaps::new_downstream
ViewMapsNewDownstream(maps, u) == [maps |-> maps, upsteam |-> <<u>>]

\* self.maps.get(viewstr).get(&from)
VmOwn(self, viewstr, from) ==
    {e \in self.maps : e.filter = viewstr /\ e.from = from}

\* ViewMaps::set
VmSet(maps, viewstr, from, to) ==
    {e \in maps : ~(e.filter = viewstr /\ e.from = from)}
    \cup {CacheEntry(viewstr, from, to)}

\* a slip: get that does not fall through to the upstream
VmGetOwn(self, viewstr, from) ==
    IF VmOwn(self, viewstr, from) # {}
    THEN (CHOOSE e \in VmOwn(self, viewstr, from) : TRUE).to
    ELSE Zero

RECURSIVE VmGet(_, _, _)
\* ViewMaps::get
VmGet(self, viewstr, from) ==
    IF VmOwn(self, viewstr, from) # {}
    THEN (CHOOSE e \in VmOwn(self, viewstr, from) : TRUE).to
    ELSE IF self.upsteam # <<>>
    THEN VmGet(self.upsteam[1], viewstr, from)
    ELSE Zero

RECURSIVE VmHas(_, _, _, _)
\* ViewMaps::has; o are the objects repo.odb() holds
VmHas(self, o, viewstr, from) ==
    IF VmOwn(self, viewstr, from) # {}
    THEN VmGet(self, viewstr, from) = Zero \/ VmGet(self, viewstr, from) \in o
    ELSE IF self.upsteam # <<>>
    THEN VmHas(self.upsteam[1], o, viewstr, from)
    ELSE FALSE

\* the two ViewMaps of the state
UpMaps == ViewMapsNew(up)
DownMaps == ViewMapsNewDownstream(down, UpMaps)

Layer(l) == IF l = "up" THEN UpMaps ELSE DownMaps

MapCall(op, l, viewstr, from, id, found, a, b) ==
    [op |-> op, layer |-> l, view |-> viewstr, from |-> from, id |-> id,
     found |-> found, a |-> a, b |-> b]

InitMaps ==
    /\ IdleButMaps
    /\ up = {}
    /\ down = {}
    /\ objs = {X1}
    /\ mcall = MapCall("new_downstream", "down", "", Zero, Zero, FALSE, {}, {})

\* fm.set(viewstr, from, to) on the downstream maps
SetDown ==
    /\ \E v \in MapViews, f \in MapFrom, t \in MapTo :
          /\ Cardinality(VmSet(down, v, f, t)) <= MaxMapEntries
          /\ down' = VmSet(down, v, f, t)
          /\ mcall' = MapCall("set", "down", v, f, t, FALSE, {}, {})
    /\ UNCHANGED <<up, objs>>
    /\ UNCHANGED nonMapsVars

\* set on the shared maps
SetUp ==
    /\ \E v \in MapViews, f \in MapFrom, t \in MapTo :
          /\ Cardinality(VmSet(up, v, f, t)) <= MaxMapEntries
          /\ up' = VmSet(up, v, f, t)
          /\ mcall' = MapCall("set", "up", v, f, t, FALSE, {}, {})
    /\ UNCHANGED <<down, objs>>
    /\ UNCHANGED nonMapsVars

\* git gc removes an object
GcObject ==
    /\ \E x \in objs : objs' = objs \ {x}
    /\ mcall' = MapCall("gc", "", "", Zero, Zero, FALSE, {}, {})
    /\ UNCHANGED <<up, down>>
    /\ UNCHANGED nonMapsVars

Get ==
    /\ \E l \in {"up", "down"}, v \in MapViews, f \in MapFrom :
          mcall' = MapCall("get", l, v, f, VmGet(Layer(l), v, f), FALSE, {}, {})
    /\ UNCHANGED <<up, down, objs>>
    /\ UNCHANGED nonMapsVars

Has ==
    /\ \E l \in {"up", "down"}, v \in MapViews, f \in MapFrom :
          mcall' = MapCall("has", l, v, f, Zero, VmHas(Layer(l), objs, v, f), {}, {})
    /\ UNCHANGED <<up, down, objs>>
    /\ UNCHANGED nonMapsVars

\* forward_maps.merge(&fm): the downstream maps are merged into the upstream
Merge ==
    /\ up' = ViewMapsMerge(up, down)
    /\ mcall' = MapCall("merge", "up", "", Zero, Zero, FALSE, up, down)
    /\ UNCHANGED <<down, objs>>
    /\ UNCHANGED nonMapsVars

\* the next request: ViewMaps::new_downstream over the same upstream
NewMaps ==
    /\ down # {}
    /\ down' = {}
    /\ mcall' = MapCall("new_downstream", "down", "", Zero, Zero, FALSE, {}, {})
    /\ UNCHANGED <<up, objs>>
    /\ UNCHANGED nonMapsVars

NextMaps == SetDown \/ SetUp \/ GcObject \/ Get \/ Has \/ Merge \/ NewMaps

SpecMaps == InitMaps /\ [][NextMaps]_vars

\* the entry a lookup in layer l comes to: the layer's own, else the upstream's
Found(l, viewstr, from) ==
    IF VmOwn(Layer(l), viewstr, from) # {} THEN VmOwn(Layer(l), viewstr, from)
    ELSE VmOwn(UpMaps, viewstr, from)

\* the object the entry maps to has been removed from the object store
Stale(l, viewstr, from) ==
    \E e \in Found(l, viewstr, from) : e.to # Zero /\ e.to \notin objs

\* C11 as stated: once the mapped object is removed, get and has behave as a
\* miss, in the downstream and in the upstream layer: get returns the null id
\* and has returns false
C11_StaleEntryIsMiss ==
    (mcall.op \in {"get", "has"} /\ Stale(mcall.layer, mcall.view, mcall.from)) =>
        /\ mcall.op = "get" => mcall.id = Zero
        /\ mcall.op = "has" => ~mcall.found

\* the part of C11 that is about has
C11_HasValidates ==
    (mcall.op = "has" /\ Stale(mcall.layer, mcall.view, mcall.from)) => ~mcall.found

\* C12: set on the downstream maps never changes the upstream maps, and get
\* on the downstream maps returns the downstream's own entry if there is
\* one, else the upstream's current entry, else the null id
C12_DownstreamLayering ==
    /\ [](mcall.op = "get" /\ mcall.layer = "down" =>
            mcall.id =
                IF \E e \in down : e.filter = mcall.view /\ e.from = mcall.from
                THEN (CHOOSE e \in down :
                        e.filter = mcall.view /\ e.from = mcall.from).to
                ELSE IF \E e \in up : e.filter = mcall.view /\ e.from = mcall.from
                THEN (CHOOSE e \in up :
                        e.filter = mcall.view /\ e.from = mcall.from).to
                ELSE Zero)
    /\ [][SetDown => up' = up]_vars

\* a get on the downstream maps that falls through to an entry the upstream
\* got after the downstream was created
C12_Witness ==
    /\ mcall.op = "get"
    /\ mcall.layer = "down"
    /\ down # {}
    /\ ~\E e \in down : e.filter = mcall.view /\ e.from = mcall.from
    /\ \E e \in up : e.filter = mcall.view /\ e.from = mcall.from /\ e.to = mcall.id
    /\ mcall.id # Zero

SameKey(e, x) == e.filter = x.filter /\ e.from = x.from

\* C13: after a.merge(b) a holds every entry of b, every entry of a whose
\* key is not in b, and nothing else; b is as it was; merging b once more
\* changes nothing
C13_Merge ==
    mcall.op = "merge" =>
        /\ \A x \in mcall.b : x \in up
        /\ \A e \in mcall.a : (~\E x \in mcall.b : SameKey(e, x)) => e \in up
        /\ \A e \in up : \A x \in up : SameKey(e, x) => e = x
        /\ up \subseteq mcall.a \cup mcall.b
        /\ down = mcall.b
        /\ ViewMapsMerge(up, down) = up

\* a merge with a conflict and with an entry of a that b has no key for
C13_Witness ==
    /\ mcall.op = "merge"
    /\ \E e \in mcall.a, x \in mcall.b : SameKey(e, x) /\ e.to # x.to
    /\ \E e \in mcall.a : ~\E x \in mcall.b : SameKey(e, x)

(***************************************************************************)
(* Filter interning (filter/mod.rs): to_filter hashes the debug print of   *)
(* an operator and records handle -> operator in FILTERS; to_op looks a    *)
(* handle up.  Here the children of an operator are handles, as in enum Op.*)
(***************************************************************************)
MaxCalls == 2        \* calls of to_filter / to_op of one thread

Threads == {1, 2}

\* git2::Oid::hash_object(ObjectType::Blob, s): the id stands for the content
HashObject(s) == <<"blob", s>>

\* {:?} of Filter(git2::Oid)
DebugFilter(h) == "Filter(" \o h[2] \o ")"

\* {:?} of a PathBuf or a String
DebugStr(p) == "\"" \o Join(p, "/") \o "\""

\* a slip: a debug print without the name of the variant
DebugFmtNoVariant(op) ==
    CASE op.op \in {"File", "Prefix", "Subdir", "Workspace", "Glob"} ->
            "(" \o DebugStr(op.arg) \o ")"
      [] op.op = "Compose" ->
            "([" \o Join([i \in 1..Len(op.kids) |-> DebugFilter(op.kids[i])], ", ")
            \o "])"
      [] op.op \in {"Chain", "Subtract"} ->
            "(" \o DebugFilter(op.kids[1]) \o ", " \o DebugFilter(op.kids[2]) \o ")"
      [] OTHER -> op.op

\* format!("{:?}", op) of #[derive(Debug)] enum Op
DebugFmt(op) ==
    CASE op.op \in {"File", "Prefix", "Subdir", "Workspace", "Glob"} ->
            op.op \o "(" \o DebugStr(op.arg) \o ")"
      [] op.op = "Compose" ->
            "Compose([" \o Join([i \in 1..Len(op.kids) |-> DebugFilter(op.kids[i])], ", ")
            \o "])"
      [] op.op \in {"Chain", "Subtract"} ->
            op.op \o "(" \o DebugFilter(op.kids[1]) \o ", "
            \o DebugFilter(op.kids[2]) \o ")"
      [] OTHER -> op.op

\* the handle to_filter computes for op
FilterOf(op) == HashObject(DebugFmt(op))

Interned(h, op) == [handle |-> h, op |-> op]

\* HashMap::insert
TableInsert(table, h, op) == {e \in table : e.handle # h} \cup {Interned(h, op)}

\* HashMap::get
TableGet(table, h) == {e.op : e \in {x \in table : x.handle = h}}

InternLeaves == {Nop, File(<<"a">>), Glob(<<"a">>)}

\* the operators a thread can build from the handles it can hold
InternOps(handles) ==
    InternLeaves
    \cup {Chain(a, b) : a \in handles, b \in handles}
    \cup {Compose(<<a, b>>) : a \in handles, b \in handles}

\* what to_op came to: the operator, or the panic "unknown filter"
NotGot == [found |-> FALSE, op |-> Nop]

IdleThread == [pc |-> "idle", op |-> Nop, f |-> <<>>, got |-> NotGot, calls |-> 0]

InitIntern ==
    /\ IdleButIntern
    /\ FILTERS = {}
    /\ mutex = 0
    /\ threads = [p \in Threads |-> IdleThread]
    /\ issued = {}

\* the handles of leaf operators that to_filter has returned
LeafHandles == {i.handle : i \in {x \in issued : x.op \in InternLeaves}}

\* to_filter(op): let s = format!("{:?}", op); let f = Filter(hash_object(s))
ToFilterHash(p) ==
    /\ threads[p].pc \in {"idle", "got"}
    /\ threads[p].calls < MaxCalls
    /\ \E op \in InternOps(LeafHandles) :
          threads' = [threads EXCEPT ![p] =
                        [pc |-> "hashed", op |-> op, f |-> FilterOf(op),
                         got |-> NotGot, calls |-> @.calls + 1]]
    /\ UNCHANGED <<FILTERS, mutex, issued>>
    /\ UNCHANGED nonInternVars

\* to_op(filter) for a handle the thread holds
ToOpCall(p) ==
    /\ threads[p].pc \in {"idle", "got"}
    /\ threads[p].calls < MaxCalls
    /\ \E i \in issued :
          threads' = [threads EXCEPT ![p] =
                        [pc |-> "to_op", op |-> Nop, f |-> i.handle,
                         got |-> NotGot, calls |-> @.calls + 1]]
    /\ UNCHANGED <<FILTERS, mutex, issued>>
    /\ UNCHANGED nonInternVars

\* FILTERS.lock().unwrap()
Lock(p) ==
    /\ threads[p].pc \in {"hashed", "to_op"}
    /\ mutex = 0
    /\ mutex' = p
    /\ threads' = [threads EXCEPT ![p].pc =
                     IF @ = "hashed" THEN "insert" ELSE "get"]
    /\ UNCHANGED <<FILTERS, issued>>
    /\ UNCHANGED nonInternVars

\* .insert(f, op); the guard is dropped at the end of the statement
Insert(p) ==
    /\ threads[p].pc = "insert"
    /\ mutex = p
    /\ FILTERS' = TableInsert(FILTERS, threads[p].f, threads[p].op)
    /\ mutex' = 0
    /\ threads' = [threads EXCEPT ![p].pc = "inserted"]
    /\ UNCHANGED issued
    /\ UNCHANGED nonInternVars

\* return f
ReturnFilter(p) ==
    /\ threads[p].pc = "inserted"
    /\ issued' = issued \cup {Interned(threads[p].f, threads[p].op)}
    /\ threads' = [threads EXCEPT ![p].pc = "idle"]
    /\ UNCHANGED <<FILTERS, mutex>>
    /\ UNCHANGED nonInternVars

\* .get(&filter).expect("unknown filter").clone()
GetOp(p) ==
    /\ threads[p].pc = "get"
    /\ mutex = p
    /\ threads' = [threads EXCEPT
                     ![p].pc = "got",
                     ![p].got = IF TableGet(FILTERS, threads[p].f) = {}
                                THEN NotGot
                                ELSE [found |-> TRUE,
                                      op |-> CHOOSE op \in TableGet(FILTERS, threads[p].f) : TRUE]]
    /\ mutex' = 0
    /\ UNCHANGED <<FILTERS, issued>>
    /\ UNCHANGED nonInternVars

NextIntern ==
    \/ \E p \in Threads : ToFilterHash(p)
    \/ \E p \in Threads : ToOpCall(p)
    \/ \E p \in Threads : Lock(p)
    \/ \E p \in Threads : Insert(p)
    \/ \E p \in Threads : ReturnFilter(p)
    \/ \E p \in Threads : GetOp(p)

SpecIntern == InitIntern /\ [][NextIntern]_vars

\* equal operators have equal handles, a handle stands for one operator,
\* the table has one entry for every handle, and to_op gives the operator a
\* handle was returned for
InternConsistent ==
    /\ \A i \in issued : \A j \in issued :
          (i.op = j.op <=> i.handle = j.handle)
    /\ \A e \in FILTERS : \A x \in FILTERS : e.handle = x.handle => e = x
    /\ issued \subseteq FILTERS
    /\ \A p \in Threads :
          threads[p].pc = "got" =>
              /\ threads[p].got.found
              /\ Interned(threads[p].f, threads[p].got.op) \in issued

\* no entry of the table is removed or changed
InternStable == \A e \in FILTERS : e \in FILTERS'

\* C15: for every interleaving of to_filter and to_op calls equal operators
\* get equal handles, the table holds one entry per handle, entries are
\* never removed or changed, and to_op returns the operator the handle was
\* made from
C15_InterningIdempotent == []InternConsistent /\ [][InternStable]_vars

\* a thread has looked up a Chain while the other thread has inserted the
\* same Chain once more
C15_Witness ==
    /\ threads[1].pc = "got"
    /\ threads[1].got.found
    /\ threads[1].got.op.op = "Chain"
    /\ threads[2].pc = "inserted"
    /\ threads[2].op = threads[1].got.op

(***************************************************************************)
(* Laws of the tree filter.                                                *)
(***************************************************************************)
\* C16: for every tree t, apply(Nop, t) = t, apply(Fold, t) = t,
\* apply(Squash, t) = t and apply(Empty, t) is the empty tree; the spec of
\* Nop is ":nop".
C16_IdentityAndEmpty ==
    /\ (tpc = "applied" /\ filter \in {Nop, Fold, Squash}) => applied = Ok(tree)
    /\ (tpc = "applied" /\ filter = Empty) => applied = Ok(EmptyTree)
    /\ filter = Nop => Text(spec(filter)) = ":nop"

C16_Witness ==
    /\ tpc = "applied"
    /\ filter = Fold
    /\ Cardinality(tree) = 2
    /\ applied.ok
    /\ applied.tree = tree

\* C17: for every filter f, Prefix, Dirs, Workspace, Compose, Chain and
\* Subtract included, apply(f, empty_tree) is the empty tree.
C17_EmptyStaysEmpty ==
    (tpc = "applied" /\ tree = EmptyTree) => applied = Ok(EmptyTree)

\* apply(b, r) for the result r of an apply
Then(r, b) == IF r.ok THEN apply(b, r.tree) ELSE r

\* C18: for all filters a, b, c and every tree t,
\* apply(Chain(a, b), t) = apply(b, apply(a, t)) and
\* apply(Chain(Chain(a, b), c), t) = apply(Chain(a, Chain(b, c)), t).
C18_ChainLaw ==
    (tpc = "applied" /\ filter.op = "Chain") =>
        /\ applied = Then(apply(filter.kids[1], tree), filter.kids[2])
        /\ filter.kids[1].op = "Chain" =>
              applied = apply(Chain(filter.kids[1].kids[1],
                                    Chain(filter.kids[1].kids[2], filter.kids[2])),
                              tree)

C18_Witness ==
    /\ tpc = "applied"
    /\ filter = Chain(Chain(Subdir(<<"a">>), File(<<"a">>)), Prefix(<<"a">>))
    /\ tree = {Entry(<<"a", "a">>, 1), Entry(<<"a", "b">>, 2)}
    /\ applied = Ok({Entry(<<"a", "a">>, 1)})

\* C19: for all filters a, b, c and every tree t, also where a path is a
\* blob in one output and a directory in another,
\* apply(Compose([a, Compose([b, c])]), t) = apply(Compose([a, b, c]), t).
C19_ComposeAssociative ==
    (/\ tpc = "applied"
     /\ filter.op = "Compose"
     /\ Len(filter.kids) = 2
     /\ filter.kids[2].op = "Compose")
        => applied = apply(Compose(<<filter.kids[1]>> \o filter.kids[2].kids), tree)

\* an entry that the filter does not map into its output: the tree that
\* holds this entry alone is filtered to the empty tree
Unselected(f, e) == apply(f, {e}) = Ok(EmptyTree)

\* C21: for every filter f, tree t and parent tree p for which unapply
\* succeeds, every entry of p that f does not map into its output is an
\* entry of unapply(f, t, p), also when t has no blob at the path of a File.
C21_KeepsParentOutside ==
    (tpc = "unapplied" /\ unapplied.ok) =>
        \A e \in parent_tree : Unselected(filter, e) => e \in unapplied.tree

(***************************************************************************)
(* The spec of a filter and its parse (SpecText): spec(f) is printed for   *)
(* two normalised filters and each string is parsed again.                 *)
(***************************************************************************)
\* the operators without children that the parser returns: a Glob has a
\* glob metacharacter, a File has none
TextLeaves ==
    {Nop, Empty, Dirs, Fold, Squash, Subdir(<<"a">>), Subdir(<<"a", "b">>),
     File(<<"a">>), File(<<"a", "b">>), Prefix(<<"a">>), Prefix(<<"a", "b">>),
     Workspace(<<"a">>), Glob(<<"*">>), Glob(<<"a", "*">>)}

TextAtoms == {Nop, Subdir(<<"a">>), File(<<"a">>), Prefix(<<"a">>), Glob(<<"*">>)}

TextInner == {Subdir(<<"a">>), Prefix(<<"a">>), File(<<"a">>)}

TextPairs ==
    {Chain(x, y) : x \in TextAtoms, y \in TextAtoms}
    \cup {Compose(<<x, y>>) : x \in TextAtoms, y \in TextAtoms}
    \cup {Subtract(x, y) : x \in TextAtoms, y \in TextAtoms}

TextNested ==
    {Chain(x, Chain(y, z)) : x \in TextInner, y \in TextInner, z \in TextInner}
    \cup {Chain(Chain(x, y), z) : x \in TextInner, y \in TextInner, z \in TextInner}
    \cup {Compose(<<x, Chain(y, z)>>) : x \in TextInner, y \in TextInner, z \in TextInner}
    \cup {Chain(Compose(<<x, y>>), z) : x \in TextInner, y \in TextInner, z \in TextInner}
    \cup {Compose(<<x, Compose(<<y, z>>)>>) : x \in TextInner, y \in TextInner, z \in TextInner}
    \cup {Subtract(Nop, Compose(<<x, y>>)) : x \in TextInner, y \in TextInner}
    \cup {Compose(<<x>>) : x \in TextInner}

\* the normalised filters: the fixed points of the optimiser
Normalised == {f \in TextLeaves \cup TextPairs \cup TextNested : optimize(f) = f}

NoText == <<>>

NotParsed == ErrFilter("not called")

InitText ==
    /\ IdleButText
    /\ nf \in Normalised \X Normalised
    /\ printed = <<NoText, NoText>>
    /\ reparsed = <<NotParsed, NotParsed>>

\* spec(nf[i])
CallSpec(i) ==
    /\ printed[i] = NoText
    /\ printed' = [printed EXCEPT ![i] = spec(nf[i])]
    /\ UNCHANGED <<nf, reparsed>>
    /\ UNCHANGED nonTextVars

\* parse(spec(nf[i]))
CallParse(i) ==
    /\ printed[i] # NoText
    /\ reparsed[i] = NotParsed
    /\ reparsed' = [reparsed EXCEPT ![i] = parse(printed[i])]
    /\ UNCHANGED <<nf, printed>>
    /\ UNCHANGED nonTextVars

NextText == \E i \in 1..2 : CallSpec(i) \/ CallParse(i)

SpecText == InitText /\ [][NextText]_vars

RequiredKeys ==
    {"refname", "filter_spec", "old", "new", "username", "password",
     "remote_url", "base_ns", "GIT_DIR", "GIT_NAMESPACE"}

\* a string that git2::Oid::from_str rejects
BadOid == [meta |-> "no oid"]

\* the values of josh::UnapplyView and the error of the JoshResult
ViewDone(id) == [kind |-> "Done", id |-> id, n |-> 0]
ViewBranchDoesNotExist == [kind |-> "BranchDoesNotExist", id |-> Zero, n |-> 0]
ViewRejectMerge(n) == [kind |-> "RejectMerge", id |-> Zero, n |-> n]
ViewErr == [kind |-> "Err", id |-> Zero, n |-> 0]

\* unapply_view was not called
NoView == [kind |-> "none", id |-> Zero, n |-> 0]

\* JoshResult<String> of process_repo_update, with the repository and the
\* remote it leaves behind and the value unapply_view has returned to it
HookOk(out, o, r, s, v) ==
    [ok |-> TRUE, out |-> out, err |-> "", odb |-> o, refs |-> r, sent |-> s,
     view |-> v]
HookErr(msg, o, r, s, v) ==
    [ok |-> FALSE, out |-> "", err |-> msg, odb |-> o, refs |-> r, sent |-> s,
     view |-> v]

\* repo.revparse_single(rev), the null id where the reference is missing
RevParse(r, rev) ==
    IF \E e \in r : e.name = rev THEN (CHOOSE e \in r : e.name = rev).target
    ELSE Zero

\* fn baseref_and_options: refs/for and refs/drafts name the branch below
\* refs/heads
baseref_and_options(refname) ==
    [baseref |-> IF Len(refname.push_to) >= 2
                    /\ refname.push_to[1] = "refs"
                    /\ refname.push_to[2] \in {"for", "drafts"}
                 THEN [refname.push_to EXCEPT ![2] = "heads"]
                 ELSE refname.push_to,
     push_to |-> refname.push_to,
     options |-> refname.options]

\* a slip: a rejected merge is taken for done
backward_new_oid_lenient(view, new) ==
    CASE view.kind \in {"Done", "RejectMerge"} ->
            [ok |-> TRUE, id |-> IF view.kind = "Done" THEN view.id ELSE new,
             err |-> ""]
      [] view.kind = "BranchDoesNotExist" ->
            [ok |-> FALSE, id |-> Zero, err |-> "branch does not exist on remote"]
      [] OTHER -> [ok |-> FALSE, id |-> Zero, err |-> "unapply_view failed"]

\* let backward_new_oid = match josh::scratch::unapply_view(...)? { ... }
backward_new_oid(view, new) ==
    CASE view.kind = "Done" -> [ok |-> TRUE, id |-> view.id, err |-> ""]
      [] view.kind = "BranchDoesNotExist" ->
            [ok |-> FALSE, id |-> Zero, err |-> "branch does not exist on remote"]
      [] view.kind = "RejectMerge" ->
            [ok |-> FALSE, id |-> Zero,
             err |-> "rejecting merge with " \o ToString(view.n) \o " parents"]
      [] OTHER -> [ok |-> FALSE, id |-> Zero, err |-> "unapply_view failed"]

\* repo.merge_commits(base, backward).write_tree_to(repo): the entries of
\* both trees, an error where the two trees disagree
merge_commits(base_commit, backward_commit) ==
    LET merged == base_commit.tree \cup backward_commit.tree IN
    IF IsTree(merged) THEN Ok(merged) ELSE Err("merge conflict")

\* the message "Merge from {filter_spec}" of the commit of a josh-merge
MergeMeta == 9

\* let oid_to_push = if josh_merge { ... } else { backward_new_oid }
oid_to_push(josh_merge, backward_oid, rev, o, r) ==
    IF ~josh_merge THEN [ok |-> TRUE, id |-> backward_oid, err |-> "", odb |-> o]
    ELSE IF backward_oid \notin o
    THEN [ok |-> FALSE, id |-> Zero, err |-> "object not found", odb |-> o]
    ELSE IF RevParse(r, rev) \notin o
    THEN [ok |-> FALSE, id |-> Zero, err |-> "josh_merge failed", odb |-> o]
    ELSE With(merge_commits(RevParse(r, rev), backward_oid), LAMBDA merged_tree :
         IF ~merged_tree.ok
         THEN [ok |-> FALSE, id |-> Zero, err |-> merged_tree.err, odb |-> o]
         ELSE With(MkCommit(MergeMeta, FALSE, merged_tree.tree,
                            <<RevParse(r, rev), backward_oid>>),
                   LAMBDA created :
                      [ok |-> TRUE, id |-> created, err |-> "",
                       odb |-> o \cup {created}]))

\* the options that are handed on: options.retain(|x| !x.starts_with("josh-"))
IsJoshOption(x) == x \in {"josh-merge"}

NotJoshOption(x) == ~IsJoshOption(x)

\* fn push_head_url: the commit is pushed from a reference that is made for
\* the push and deleted after it; the output of git push is the result
push_head_url(o, r, s, oid, refname, namespace, stderr, v) ==
    IF oid \notin o THEN HookErr("object not found", o, r, s, v)
    ELSE HookOk(stderr, o, {e \in r : e.name # <<"refs", namespace>>},
                Append(s, [ref |-> refname, oid |-> oid]), v)

\* pub fn process_repo_update; view is what unapply_view returns, with the
\* objects it has written, and stderr the output of git push
process_repo_update(repo_update, o, r, s, view, written, stderr) ==
    IF ~(RequiredKeys \subseteq repo_update.keys) THEN HookErr("", o, r, s, NoView)
    ELSE IF repo_update.old = BadOid THEN HookErr("invalid oid", o, r, s, NoView)
    ELSE
    With(baseref_and_options(repo_update.refname), LAMBDA b :
    IF repo_update.new = BadOid THEN HookErr("invalid oid", o, r, s, NoView)
    ELSE
    With(backward_new_oid(view, repo_update.new), LAMBDA rewritten :
    IF ~rewritten.ok THEN HookErr(rewritten.err, o \cup written, r, s, view)
    ELSE
    With(oid_to_push("josh-merge" \in Range(b.options), rewritten.id,
                     <<"refs", "josh", "upstream", repo_update.base_ns>>
                        \o b.baseref,
                     o \cup written, r),
         LAMBDA to_push :
    IF ~to_push.ok THEN HookErr(to_push.err, to_push.odb, r, s, view)
    ELSE push_head_url(to_push.odb, r, s, to_push.id,
                       [push_to |-> b.push_to,
                        options |-> SelectSeq(b.options, NotJoshOption)],
                       repo_update.git_ns, stderr, view))))

\* the upstream history and the commits of a push
Upstream1 == Root(1, T1)
Upstream2 == MkCommit(2, TRUE, T3, <<Upstream1>>)
Pushed == MkCommit(8, FALSE, {Entry(<<"a">>, 2)}, <<>>)
Rewritten1 == MkCommit(8, FALSE, T2, <<Upstream1>>)
Rewritten2 == MkCommit(8, FALSE, T3 \cup {Entry(<<"a", "b">>, 3)}, <<Upstream1>>)

PushRefs ==
    {<<"refs", "heads", "master">>, <<"refs", "for", "master">>,
     <<"refs", "drafts", "master">>}

PushOptions == {<<>>, <<"josh-merge">>, <<"topic=x">>, <<"josh-merge", "topic=x">>}

RepoUpdates ==
    {[keys |-> k, refname |-> [push_to |-> p, options |-> opts],
      old |-> old, new |-> new, git_ns |-> "ns", base_ns |-> "base"] :
        k \in {RequiredKeys, RequiredKeys \ {"new"}},
        p \in PushRefs, opts \in PushOptions,
        old \in {Zero, BadOid}, new \in {Pushed, BadOid}}

\* the references of the repository of the hook: the upstream branch is
\* there or not
HookRefs ==
    {{}, {[name |-> <<"refs", "josh", "upstream", "base", "refs", "heads", "master">>,
           target |-> Upstream2]}}

\* what unapply_view can return for a push, with the objects it has written
UnapplyViews ==
    {[view |-> ViewDone(c), written |-> {c}] : c \in {Rewritten1, Rewritten2}}
    \cup {[view |-> ViewDone(Zero), written |-> {}],
          [view |-> ViewBranchDoesNotExist, written |-> {}],
          [view |-> ViewErr, written |-> {}],
          [view |-> ViewErr, written |-> {Rewritten1}],
          [view |-> ViewRejectMerge(2), written |-> {}],
          [view |-> ViewRejectMerge(2), written |-> {Rewritten1}]}

NotReplied == HookErr("not called", {}, {}, <<>>, NoView)

InitPush ==
    /\ IdleButPush
    /\ ru \in RepoUpdates
    /\ hookrefs \in HookRefs
    /\ hookodb = {Upstream1, Upstream2, Pushed}
    /\ sent = <<>>
    /\ reply = NotReplied

\* the hook runs: process_repo_update on the request
ProcessRepoUpdate ==
    /\ reply = NotReplied
    /\ \E v \in UnapplyViews, stderr \in {"To upstream", "! [rejected]"} :
        \E r \in {process_repo_update(ru, hookodb, hookrefs, sent, v.view,
                                      v.written, stderr)} :
        /\ reply' = r
        /\ hookodb' = r.odb
        /\ hookrefs' = r.refs
        /\ sent' = r.sent
    /\ UNCHANGED ru
    /\ UNCHANGED nonPushVars

NextPush == ProcessRepoUpdate

SpecPush == InitPush /\ [][NextPush]_vars

\* C22: when unapply_view returns RejectMerge(n) or BranchDoesNotExist, or
\* fails, process_repo_update returns an error, nothing is pushed to the
\* remote and no merge commit is created; a push is sent only after Done.
C22_PushOnlyWhenDone ==
    /\ reply.view.kind \in {"RejectMerge", "BranchDoesNotExist", "Err"} =>
            /\ ~reply.ok
            /\ sent = <<>>
            /\ \A c \in hookodb : c.meta # MergeMeta
    /\ sent # <<>> => reply.view.kind = "Done"

\* a rejected merge for a push with the option josh-merge, in a repository
\* that has the upstream branch
C22_Witness ==
    /\ reply.view = ViewRejectMerge(2)
    /\ "josh-merge" \in Range(ru.refname.options)
    /\ hookrefs # {}
    /\ Rewritten1 \in hookodb
    /\ ~reply.ok
    /\ reply.err = "rejecting merge with 2 parents"
    /\ sent = <<>>

(***************************************************************************)
(* history::walk2 step by step (SpecSteps): find_known, then one           *)
(* apply_to_commit for every commit of the filtered traversal, then the    *)
(* apply_to_commit on the input that gives the result.  The transaction    *)
(* of the walk reaches the cache when the walk succeeds.                   *)
(***************************************************************************)
StepTips ==
    {Linear(T1, t2, t3) : t2 \in {T1, T2}, t3 \in {T2, T3}}
    \cup {Merged(T2, T3, T2), InitialMerge(T0, T2, T2),
          Linear({Entry(<<"b">>, 1)}, T1, T2)}

StepFilters ==
    { Nop, Empty, Squash, Fold, Subdir(<<"a">>), File(<<"b">>),
      Compose(<<Subdir(<<"a">>), File(<<"b">>)>>),
      Chain(Subdir(<<"a">>), Prefix(<<"b">>)),
      Chain(Nop, Subdir(<<"a">>)),
      Subtract(Nop, Fold) }

\* a commit that is not in the repository
Missing == MkCommit(7, TRUE, T1, <<>>)

NoWalk == CErr("not called", MkState({}, {}))

InitSteps ==
    /\ IdleButSteps
    /\ \E tip \in StepTips : graph = Ancestors(tip)
    /\ cfilter \in StepFilters
    /\ cache \in SubsetsUpTo(TrueEntries(cfilter, graph), MaxSeeded)
    /\ odb = graph \cup ObjectsOf(cache)
    /\ winput = Zero
    /\ wtx = MkState({}, {})
    /\ wknown = <<>>
    /\ n_new = 0
    /\ queue = <<>>
    /\ visited = <<>>
    /\ wres = NoWalk
    /\ wpc = "idle"

\* walk2 up to the filtered traversal: the commit is looked up in the
\* repository and in the cache, then find_known and the revwalk
WalkStart ==
    /\ wpc \in {"idle", "done"}
    /\ \E input \in graph \cup {Missing} :
        LET st == MkState(cache, odb) IN
        /\ winput' = input
        /\ wtx' = st
        /\ visited' = <<>>
        /\ IF ~find_commit(st, input)
           THEN /\ wres' = CRes(Zero, st)
                /\ wpc' = "done"
                /\ UNCHANGED <<wknown, n_new, queue>>
           ELSE IF TxHas(st, cfilter, input)
           THEN /\ wres' = CRes(Cached(st, cfilter, input), st)
                /\ wpc' = "done"
                /\ UNCHANGED <<wknown, n_new, queue>>
           ELSE \E found \in {find_known(cfilter, input, st)} :
                /\ wknown' = found.known
                /\ n_new' = found.n_new
                /\ queue' = FilteredTraversal(input, found.known)
                /\ wres' = NoWalk
                /\ wpc' = "traverse"
    /\ UNCHANGED <<graph, odb, cache, cfilter>>
    /\ UNCHANGED nonStepsVars

\* one turn of the loop over the revwalk: apply_to_commit on the commit that
\* is yielded; an error ends the walk
WalkApply ==
    /\ wpc = "traverse"
    /\ queue # <<>>
    /\ \E r \in {apply_to_commit(cfilter, Head(queue), wtx)} :
        IF r.ok
        THEN /\ wtx' = r.st
             /\ visited' = Append(visited, [commit |-> Head(queue), id |-> r.id])
             /\ queue' = Tail(queue)
             /\ UNCHANGED <<wres, wpc, odb>>
        ELSE /\ wres' = r
             /\ wpc' = "done"
             /\ odb' = r.st.odb
             /\ UNCHANGED <<wtx, visited, queue>>
    /\ UNCHANGED <<graph, cache, cfilter, winput, wknown, n_new>>
    /\ UNCHANGED nonStepsVars

\* the end of walk2: apply_to_commit on the input
WalkFinish ==
    /\ wpc = "traverse"
    /\ queue = <<>>
    /\ \E r \in {apply_to_commit(cfilter, winput, wtx)} :
        /\ wres' = r
        /\ odb' = r.st.odb
        /\ cache' = IF r.ok THEN r.st.cache ELSE cache
    /\ wpc' = "done"
    /\ UNCHANGED <<graph, cfilter, winput, wtx, wknown, n_new, queue, visited>>
    /\ UNCHANGED nonStepsVars

NextSteps == WalkStart \/ WalkApply \/ WalkFinish

SpecSteps == InitSteps /\ [][NextSteps]_vars

\* the repository and the cache the walk has started with
AtStart == MkState(cache, odb)

\* the commits the known set hides
Hidden == AncestorsOfAll(Range(wknown))

\* the commits the traversal has applied the filter to, in order
Applied == [i \in 1..Len(visited) |-> visited[i].commit]

\* a history without merges
IsLinearChain(c) == \A d \in Ancestors(c) : Len(d.parents) <= 1

\* C23: for a linear chain of N >= 2 commits in which every commit but the
\* tip has a cache entry for f, walk(f, tip) computes n_new = 1 and its
\* traversal applies the filter to the tip alone.
C23_IncrementalWalk ==
    (/\ wpc = "traverse"
     /\ IsLinearChain(winput)
     /\ Cardinality(Ancestors(winput)) >= 2
     /\ \A c \in Ancestors(winput) \ {winput} : TxHas(AtStart, cfilter, c))
    => (/\ n_new = 1
        /\ Applied \o queue = <<winput>>)

\* the walk of a chain of three commits after the tip has advanced by one,
\* when the traversal is through
C23_Witness ==
    /\ wpc = "traverse"
    /\ queue = <<>>
    /\ Cardinality(Ancestors(winput)) = 3
    /\ IsLinearChain(winput)
    /\ \A c \in Ancestors(winput) \ {winput} : TxHas(AtStart, cfilter, c)
    /\ n_new = 1
    /\ Applied = <<winput>>

\* the filters apply_to_commit2 answers before it looks into the cache
BaseCase(f) == optimize(f).op \in {"Nop", "Empty", "Chain", "Squash"}

\* the commits of the traversal so far have their results in the transaction
ResultsRecorded ==
    \A i \in 1..Len(visited) :
        /\ TxHas(wtx, optimize(cfilter), visited[i].commit)
        /\ TxGet(wtx, optimize(cfilter), visited[i].commit) = visited[i].id

\* the apply_to_commit that ends the walk finds its result in the cache
FinalIsHit ==
    (wpc = "traverse" /\ queue = <<>>) => TxHas(wtx, optimize(cfilter), winput)

\* after the walk the same walk is answered from the cache
WalkIsCached ==
    (wpc = "done" /\ wres.ok /\ find_commit(AtStart, winput))
        => TxHas(AtStart, cfilter, winput)

C29_FindKnownPostcondition ==
    wpc = "traverse" =>
        /\ \A k \in Range(wknown) : TxHas(AtStart, cfilter, k)
        /\ \A c \in Ancestors(winput) \ Hidden : ~TxHas(AtStart, cfilter, c)
        /\ n_new = Cardinality(Ancestors(winput) \ Hidden)
        /\ Len(visited) + Len(queue) = n_new

\* find_known has started over twice, for two histories that earlier walks
\* have filtered, and the traversal is through
C29_Witness ==
    /\ wpc = "traverse"
    /\ queue = <<>>
    /\ Len(wknown) = 2
    /\ n_new = 1
    /\ Len(visited) = 1

\* a cache entry under the filter as it is given or under its optimised form
HasEntry(st, f, c) == TxHas(st, f, c) \/ TxHas(st, optimize(f), c)

\* every commit that is reachable from the input and not hidden is yielded
\* once
YieldedOnce ==
    wpc = "traverse" =>
        /\ Range(Applied \o queue) = Ancestors(winput) \ Hidden
        /\ Len(Applied \o queue) = Cardinality(Ancestors(winput) \ Hidden)

\* C30 as stated: when apply_to_commit is invoked for a yielded commit, each
\* of its parents has a cache entry for the filter or is hidden by the
\* known set; every commit that is not hidden is applied once.
C30_ParentsHaveEntries ==
    /\ (wpc = "traverse" /\ queue # <<>>) =>
            \A p \in Range(Head(queue).parents) :
                HasEntry(wtx, cfilter, p) \/ p \in Hidden
    /\ YieldedOnce

\* C30 amended: when apply_to_commit is invoked for a yielded commit, each
\* of its parents has been applied by the traversal before or is hidden by
\* the known set, and has a cache entry if the optimised filter is none of
\* Nop, Empty, Squash and Chain; every commit that is not hidden is yielded
\* once.
C30_ParentsFirst ==
    /\ (wpc = "traverse" /\ queue # <<>>) =>
            \A p \in Range(Head(queue).parents) :
                /\ p \in Range(Applied) \/ p \in Hidden
                /\ ~BaseCase(cfilter) =>
                        (TxHas(wtx, optimize(cfilter), p) \/ p \in Hidden)
    /\ YieldedOnce

\* a merge is next, one parent has been applied and the other is hidden
C30_Witness ==
    /\ wpc = "traverse"
    /\ queue # <<>>
    /\ Len(Head(queue).parents) = 2
    /\ \E p \in Range(Head(queue).parents) : p \in Range(Applied) /\ p \notin Hidden
    /\ \E p \in Range(Head(queue).parents) : p \in Hidden
    /\ BaseCase(cfilter)

(***************************************************************************)
(* history::create_filtered_commit as a function of its arguments          *)
(* (SpecCreate): the original commit, the ids its parents are filtered     *)
(* to, with the null id for a parent that is filtered away, and the        *)
(* filtered tree.                                                          *)
(***************************************************************************)
MaxParents == 2      \* filtered parent ids of a call

Sub1 == {Entry(<<"a">>, 1)}
Sub2 == {Entry(<<"a">>, 2)}

\* original commits: roots, a commit that changes nothing, one that changes
\* something, and merges
Originals ==
    {Root(1, T0), Root(1, T1),
     MkCommit(3, TRUE, T1, <<Root(1, T1)>>),
     MkCommit(3, TRUE, T2, <<Root(1, T1)>>),
     Merged(T2, T3, T2), Merged(T2, T2, T2),
     InitialMerge(T1, T0, T3)}

\* filtered commits: a history of two, and two commits without a common
\* ancestor with it, one of them with an empty tree
FP1 == MkCommit(1, FALSE, Sub1, <<>>)
FP2 == MkCommit(2, FALSE, Sub2, <<FP1>>)
FP3 == MkCommit(2, FALSE, Sub1, <<>>)
FPE == Root(2, T0)

FilteredParents == {Zero, FP1, FP2, FP3, FPE}

ParentIdLists == UNION {[1..n -> FilteredParents] : n \in 0..MaxParents}

NotCreated == CErr("not called", MkState({}, {}))

InitCreate ==
    /\ IdleButCreate
    /\ corig \in Originals
    /\ cparents \in {ids \in ParentIdLists : Len(ids) >= Len(corig.parents)}
    /\ ctree \in {EmptyTree, Sub1, Sub2}
    /\ cspec \in {Subdir(<<"a">>), File(<<"b">>)}
    /\ \E gone \in {{}, {FP3}} :
          crepo = MkState({}, (Ancestors(corig) \cup {FP1, FP2, FP3, FPE}) \ gone)
    /\ cret = NotCreated

\* create_filtered_commit(repo, original_commit, filtered_parent_ids,
\* filtered_tree, transaction, spec)
CreateFilteredCommit ==
    /\ cret = NotCreated
    /\ cret' = create_filtered_commit(crepo, corig, cparents, ctree, cspec)
    /\ UNCHANGED <<crepo, corig, cparents, ctree, cspec>>
    /\ UNCHANGED nonCreateVars

NextCreate == CreateFilteredCommit

SpecCreate == InitCreate /\ [][NextCreate]_vars

\* the call has returned a commit id
Returned == cret # NotCreated /\ cret.ok

\* filtered_parent_commits of create_filtered_commit2 when
\* select_parent_commits is called: the ids that are not null, without the
\* empty trees if is_initial_merge
Survivors ==
    LET found == SelectSeq(cparents, NonZero) IN
    IF Len(cparents) > 1 /\ ~merge_base_many(crepo, cparents)
    THEN SelectSeq(found, HasFiles) ELSE found

\* the commit does not affect the filter
Unaffected == \A i \in 1..Len(Survivors) : Survivors[i].tree = ctree

AllDiffsEmpty ==
    \A i \in 1..Len(corig.parents) : corig.parents[i].tree = corig.tree

SomeDiffEmpty ==
    \E i \in 1..Len(corig.parents) : corig.parents[i].tree = corig.tree

\* the call has written a commit
HasCreated == cret.id # Zero /\ cret.id \notin crepo.odb

C26_FlattenAfterNullDropped ==
    LET found == SelectSeq(cparents, NonZero) IN
    (Returned /\ found # <<>>
     /\ (Len(found) < 2 \/ merge_base_many(crepo, found)))
        => (cret.id = found[1] \/ cret.id.parents = found)

\* no filtered parent is selected and the original commit is not a root
\* with an empty tree
NoneSelected ==
    /\ select_parent_commits(corig, ctree, Survivors) = <<>>
    /\ ~(Len(corig.parents) = 0 /\ is_empty_root(corig.tree))

\* the cache records the result of the call
Recorded ==
    /\ TxHas(cret.st, cspec, corig)
    /\ TxGet(cret.st, cspec, corig) = cret.id

\* C27 as stated: when no filtered parent is selected and the original
\* commit is not a root with an empty tree, the result is the first
\* surviving filtered parent, or the null id if none survives, and the
\* cache records it.
C27_NullWithoutSurvivors ==
    (Returned /\ NoneSelected)
        => /\ cret.id = IF Survivors # <<>> THEN Survivors[1] ELSE Zero
           /\ Recorded

\* C27 amended: when no filtered parent is selected and the original commit
\* is not a root with an empty tree, the result is the first surviving
\* filtered parent; if none survives it is the null id when the filtered
\* tree is empty and a commit without parents that has the filtered tree
\* otherwise; the cache records the result.
C27_NullOnlyForEmptyTree ==
    (Returned /\ NoneSelected)
        => /\ IF Survivors # <<>> THEN cret.id = Survivors[1]
              ELSE IF ctree = EmptyTree THEN cret.id = Zero
              ELSE cret.id # Zero /\ cret.id.tree = ctree /\ cret.id.parents = <<>>
           /\ Recorded

\* a commit with a parent, whose parents are filtered away and whose
\* filtered tree is empty, gets the null id in the cache
C27_Witness ==
    /\ Returned
    /\ NoneSelected
    /\ Len(corig.parents) = 1
    /\ cparents = <<Zero>>
    /\ ctree = EmptyTree
    /\ cret.id = Zero
    /\ CacheEntry(cspec, corig, Zero) \in cret.st.cache

(***************************************************************************)
(* find_original called again and again on one map bm, as unapply_filter   *)
(* calls it for the pushed commit and for the parents of every commit it   *)
(* rewrites.                                                               *)
(***************************************************************************)
MaxLookups == 2      \* calls of find_original on one map

\* the filtered commits of the upstream history
FilteredOf(f, cs) ==
    {apply_to_commit(f, o, MkState({}, cs)).id : o \in cs}

\* the ids a caller asks for: a filtered commit, a commit of the upstream
\* history, a commit of the client, the null id
Asked ==
    {Zero, MkCommit(8, FALSE, P1, <<>>)} \cup graph \cup FilteredOf(cfilter, graph)

\* JoshResult<git2::Oid> of a call
Answer(r) == [ok |-> r.ok, id |-> r.id, err |-> r.err]

NotAsked == Answer(FErr("not called", {}, {}))

InitOriginal ==
    /\ IdleButOriginal
    /\ \E tip \in UnapplyTips : graph = Ancestors(tip)
    /\ cfilter \in UnapplyFilters
    /\ cache = {}
    /\ odb = graph
    /\ \E c \in {Zero} \cup graph :
        fo = [contained_in |-> c, filtered |-> Zero, bm |-> {}, res |-> NotAsked,
              n |-> 0]

\* find_original(repo, &mut bm, filter, contained_in, filtered)
FindOriginal ==
    /\ fo.n < MaxLookups
    /\ \E filtered \in Asked :
        \E r \in {find_original(cache, fo.bm, odb, cfilter, fo.contained_in, filtered)} :
        /\ fo' = [fo EXCEPT !.filtered = filtered, !.bm = r.bm, !.res = Answer(r),
                            !.n = fo.n + 1]
        /\ odb' = r.odb
    /\ UNCHANGED <<graph, cache, cfilter>>
    /\ UNCHANGED nonOriginalVars

NextOriginal == FindOriginal

SpecOriginal == InitOriginal /\ [][NextOriginal]_vars

\* the ancestors-or-self o of contained_in with apply_to_commit(f, o) = filtered
Matching ==
    {o \in Ancestors(fo.contained_in) :
        With(apply_to_commit(cfilter, o, MkState({}, odb)), LAMBDA r :
            r.ok /\ r.id = fo.filtered)}

\* C31 as stated: find_original returns the null id when contained_in is
\* null or no ancestor-or-self of contained_in is filtered to the id asked
\* for, and such an ancestor otherwise, on the first call and on every later
\* call on the same bm
C31_FindOriginal ==
    (fo.n > 0 /\ fo.res.ok) =>
        IF fo.contained_in = Zero \/ Matching = {}
        THEN fo.res.id = Zero
        ELSE fo.res.id \in Matching

\* the entry k -> v of bm leads from a filtered id to its original
FilteredToOriginal(e) ==
    With(apply_to_commit(cfilter, e.val, MkState({}, odb)), LAMBDA r :
        r.ok /\ r.id = e.key)

\* the entry leads from a commit of the upstream history to its filtered commit
OriginalToFiltered(e) ==
    /\ e.key \in graph
    /\ e.key # e.val
    /\ walk(cfilter, e.key, MkState({}, odb)).id = e.val

\* C33 as stated: every entry k -> v of bm has a filtered id as k and its
\* original as v, apply_to_commit(f, v) = k, and no entry leads from an
\* original commit to its filtered commit
C33_BmFilteredToOriginal ==
    upc = "done" =>
        \A e \in ures.bm : FilteredToOriginal(e) /\ ~OriginalToFiltered(e)

(***************************************************************************)
(* refresh_all_known_views (josh-proxy.rs, async_fetch): the tasks that    *)
(* the requests spawn on the compute pool, and the /views handler.         *)
(***************************************************************************)
MaxRefresh == 2      \* refresh tasks on the threads of the compute pool

RefreshTasks == 1..MaxRefresh

\* the /views handler, as a holder of the lock
ViewsHandler == 0

ViewStrings == {"v1", "v2"}

NoRefresh == [pc |-> "idle", viewstr |-> "", todo |-> {}]

InitRefresh ==
    /\ IdleButRefresh
    /\ known_views = [written |-> FALSE, readers |-> {}, views |-> {}]
    /\ refresh = [t \in RefreshTasks |-> NoRefresh]
    /\ skips = {}

\* a rebuild is in progress: a task is in the loop over the known views
Rebuilding(t) == refresh[t].pc = "rebuild"

\* std::sync::RwLock: try_write succeeds if nobody holds the lock
CanTryWrite == ~known_views.written /\ known_views.readers = {}

\* std::sync::RwLock: read waits for the writer
CanReadViews == ~known_views.written

\* cp.spawn_fn(move || ...): a request has fetched and spawns the task
SpawnRefresh(t) ==
    /\ refresh[t].pc = "idle"
    /\ \E v \in ViewStrings :
        refresh' = [refresh EXCEPT ![t] = [pc |-> "try", viewstr |-> v, todo |-> {}]]
    /\ UNCHANGED <<known_views, skips>>
    /\ UNCHANGED nonRefreshVars

\* if let Ok(mut kn) = known_views.try_write() { kn.entry(..).insert(viewstr2) }
\* else { return Ok(()) }
TryWrite(t) ==
    /\ refresh[t].pc = "try"
    /\ IF CanTryWrite
       THEN /\ known_views' = [known_views EXCEPT
                                  !.written = TRUE,
                                  !.views = @ \cup {refresh[t].viewstr}]
            /\ refresh' = [refresh EXCEPT ![t].pc = "inserted"]
            /\ UNCHANGED skips
       ELSE /\ refresh' = [refresh EXCEPT ![t] = NoRefresh]
            /\ skips' = skips \cup {\E u \in RefreshTasks : Rebuilding(u)}
            /\ UNCHANGED known_views
    /\ UNCHANGED nonRefreshVars

\* the end of the if block: the write guard kn is dropped
DropWrite(t) ==
    /\ refresh[t].pc = "inserted"
    /\ known_views' = [known_views EXCEPT !.written = FALSE]
    /\ refresh' = [refresh EXCEPT ![t].pc = "read"]
    /\ UNCHANGED skips
    /\ UNCHANGED nonRefreshVars

\* if let Ok(kn) = known_views.read(): the rebuild of every known view starts
ReadViews(t) ==
    /\ refresh[t].pc = "read"
    /\ CanReadViews
    /\ known_views' = [known_views EXCEPT !.readers = @ \cup {t}]
    /\ refresh' = [refresh EXCEPT ![t].pc = "rebuild", ![t].todo = known_views.views]
    /\ UNCHANGED skips
    /\ UNCHANGED nonRefreshVars

\* for v in e.iter() { make_view_repo(v, ..) }
RebuildView(t) ==
    /\ Rebuilding(t)
    /\ \E v \in refresh[t].todo :
        refresh' = [refresh EXCEPT ![t].todo = @ \ {v}]
    /\ UNCHANGED <<known_views, skips>>
    /\ UNCHANGED nonRefreshVars

\* the end of the loop: the read guard is dropped, Ok(())
EndRefresh(t) ==
    /\ Rebuilding(t)
    /\ refresh[t].todo = {}
    /\ known_views' = [known_views EXCEPT !.readers = @ \ {t}]
    /\ refresh' = [refresh EXCEPT ![t] = NoRefresh]
    /\ UNCHANGED skips
    /\ UNCHANGED nonRefreshVars

\* path == "/views": service.known_views.read().unwrap() for the response
ViewsRead ==
    /\ ViewsHandler \notin known_views.readers
    /\ CanReadViews
    /\ known_views' = [known_views EXCEPT !.readers = @ \cup {ViewsHandler}]
    /\ UNCHANGED <<refresh, skips>>
    /\ UNCHANGED nonRefreshVars

\* the response body is written, the read guard is dropped
ViewsDone ==
    /\ ViewsHandler \in known_views.readers
    /\ known_views' = [known_views EXCEPT !.readers = @ \ {ViewsHandler}]
    /\ UNCHANGED <<refresh, skips>>
    /\ UNCHANGED nonRefreshVars

NextRefresh ==
    \/ \E t \in RefreshTasks : SpawnRefresh(t)
    \/ \E t \in RefreshTasks : TryWrite(t)
    \/ \E t \in RefreshTasks : DropWrite(t)
    \/ \E t \in RefreshTasks : ReadViews(t)
    \/ \E t \in RefreshTasks : RebuildView(t)
    \/ \E t \in RefreshTasks : EndRefresh(t)
    \/ ViewsRead
    \/ ViewsDone

SpecRefresh == InitRefresh /\ [][NextRefresh]_vars

\* C32 as stated: at most one refresh of all known views is in progress at
\* any time, and a try_write on known_views fails only while a rebuild is
\* in progress
C32_OneRefresh ==
    /\ Cardinality({t \in RefreshTasks : Rebuilding(t)}) <= 1
    /\ FALSE \notin skips

(***************************************************************************)
(* apply, one call at a time: the calls of apply2 that have not returned   *)
(* are kept as a stack of frames, each with the results of the calls it    *)
(* has made so far.                                                        *)
(***************************************************************************)
MaxDepth == 6        \* frames on the stack

\* a tree whose a/workspace.josh names the workspace a itself, and trees
\* with a filter, with no filter and without a workspace.josh
SelfTree == {Entry(<<"a", WorkspaceFile>>, SelfBlob), Entry(<<"a", "a">>, 1),
             Entry(<<"b">>, 2)}

ApplyTrees ==
    { SelfTree,
      {Entry(<<"a", WorkspaceFile>>, 1), Entry(<<"a", "a">>, 1), Entry(<<"b">>, 2)},
      {Entry(<<"a", WorkspaceFile>>, 2), Entry(<<"a", "a">>, 1)},
      {Entry(<<"b", WorkspaceFile>>, SelfBlob), Entry(<<"a", "a">>, 1)},
      T1, EmptyTree }

ApplyFilters ==
    { Workspace(<<"a">>), Workspace(<<"b">>), Subdir(<<"a">>),
      Chain(Prefix(<<"a">>), Workspace(<<"a">>)),
      Chain(Workspace(<<"a">>), Prefix(<<"b">>)),
      Compose(<<Subdir(<<"b">>), Workspace(<<"a">>)>>),
      Subtract(Nop, Subdir(<<"a">>)),
      Subtract(Workspace(<<"a">>), File(<<"b">>)) }

Frame(f, t) == [f |-> f, t |-> t, acc |-> <<>>]

\* what a call of apply2 does next
Call(f, t) == [call |-> TRUE, f |-> f, t |-> t, res |-> None]
Return(res) == [call |-> FALSE, f |-> Nop, t |-> {}, res |-> res]

\* apply2 after the calls of apply whose results are acc: a call of apply,
\* or the return of a result
apply2_next(f, t, acc) ==
    LET n == Len(acc) IN
    CASE n > 0 /\ ~acc[n].ok -> Return(acc[n])
      [] f.op = "Workspace" ->
            IF n = 1 THEN Return(acc[1]) ELSE
            With(ParseWorkspace(get_blob(t, f.arg \o <<WorkspaceFile>>)), LAMBDA cw :
                IF cw.ok THEN Call(Compose(<<Subdir(f.arg), cw.filter>>), t)
                ELSE Call(Subdir(f.arg), t))
      [] f.op = "Compose" ->
            IF n < Len(f.kids) THEN Call(f.kids[n + 1], t)
            ELSE Return(Ok(ComposeTrees([i \in 1..n |-> acc[i].tree])))
      [] f.op = "Chain" ->
            CASE n = 0 -> Call(f.kids[1], t)
              [] n = 1 -> Call(f.kids[2], acc[1].tree)
              [] OTHER -> Return(acc[2])
      [] f.op = "Subtract" ->
            CASE n = 0 -> Call(f.kids[1], t)
              [] n = 1 -> Call(f.kids[2], t)
              [] n = 2 ->
                    With(unapply(f.kids[2], acc[2].tree, EmptyTree), LAMBDA bu :
                        IF ~bu.ok THEN Return(bu) ELSE Call(f.kids[1], bu.tree))
              [] OTHER -> Return(Ok(SubtractTree(acc[1].tree, acc[3].tree)))
      [] OTHER -> Return(apply(f, t))

Running == [ok |-> FALSE, tree |-> {}, err |-> "running"]

InitApply ==
    /\ IdleButApply
    /\ \E f \in ApplyFilters, t \in ApplyTrees :
        /\ acall = [f |-> f, t |-> t]
        /\ frames = <<Frame(f, t)>>
    /\ aret = Running

Top == frames[Len(frames)]

\* the innermost call makes a call of apply
ApplyCall ==
    /\ frames # <<>>
    /\ Len(frames) < MaxDepth
    /\ \E x \in {apply2_next(Top.f, Top.t, Top.acc)} :
        /\ x.call
        /\ frames' = Append(frames, Frame(x.f, x.t))
    /\ UNCHANGED <<acall, aret>>
    /\ UNCHANGED nonApplyVars

\* the innermost call returns to its caller
ApplyReturn ==
    /\ frames # <<>>
    /\ \E x \in {apply2_next(Top.f, Top.t, Top.acc)} :
        /\ ~x.call
        /\ IF Len(frames) = 1
           THEN /\ frames' = <<>>
                /\ aret' = x.res
           ELSE /\ frames' = [SubSeq(frames, 1, Len(frames) - 1) EXCEPT
                                 ![Len(frames) - 1].acc = Append(@, x.res)]
                /\ UNCHANGED aret
    /\ UNCHANGED acall
    /\ UNCHANGED nonApplyVars

NextApply == ApplyCall \/ ApplyReturn

SpecApply == InitApply /\ [][NextApply]_vars

\* a call of apply is nested in a call of apply with the same filter and
\* the same tree: it makes that call again, and so on without end
Reentered ==
    \E i, j \in 1..Len(frames) :
        i < j /\ frames[i].f = frames[j].f /\ frames[i].t = frames[j].t

\* the call by call evaluation returns what apply returns
StepsAgree == frames = <<>> => aret = apply(acall.f, acall.t)

\* C34 as stated: apply(f, t) terminates for every filter and every tree, a
\* workspace whose workspace.josh holds a workspace filter included: no call
\* of apply comes to make the same call of apply again
C34_ApplyTerminates == ~Reentered

(***************************************************************************)
(* walk2 and apply_to_commit2, one call at a time: the calls that have not *)
(* returned are kept as a stack of frames; a frame of walk2 has the known  *)
(* list of find_known and the commits its revwalk has yet to yield, a      *)
(* frame of apply_to_commit2 the results of the calls it has made.         *)
(***************************************************************************)
MaxSteps == 100      \* steps of the calls that one call makes

NestTips ==
    {Linear(T1, T2, T3), Linear(T1, T1, T2), Merged(T2, T3, T2),
     InitialMerge(T0, T2, T2)}

\* filters without a workspace
NestFilters ==
    { Nop, Squash, Fold, Subdir(<<"a">>),
      Compose(<<Subdir(<<"a">>), File(<<"b">>)>>),
      Chain(Subdir(<<"a">>), Prefix(<<"b">>)),
      Subtract(Nop, File(<<"b">>)) }

Walk2Frame(f, c) ==
    [kind |-> "walk2", f |-> f, c |-> c, pc |-> "start", known |-> <<>>,
     queue |-> <<>>, acc |-> <<>>]

ApplyFrame(f, c) ==
    [kind |-> "apply", f |-> f, c |-> c, pc |-> "start", known |-> <<>>,
     queue |-> <<>>, acc |-> <<>>]

\* what a frame does next: it calls, it returns, or it goes on by itself
Calls(frame) == [do |-> "call", frame |-> frame, res |-> NoWalk]
Returns(res) == [do |-> "return", frame |-> <<>>, res |-> res]
GoesOn == [do |-> "go on", frame |-> <<>>, res |-> NoWalk]

\* the ids that the calls of a frame have returned
Ids(acc) == [i \in 1..Len(acc) |-> acc[i].id]

\* the calls apply_to_commit2 makes for the filtered tree
TreeCalls(filt, c) ==
    CASE filt.op = "Compose" -> [i \in 1..Len(filt.kids) |-> ApplyFrame(filt.kids[i], c)]
      [] filt.op = "Fold" -> [i \in 1..Len(c.parents) |-> Walk2Frame(filt, c.parents[i])]
      [] filt.op = "Subtract" -> <<ApplyFrame(filt.kids[1], c), ApplyFrame(filt.kids[2], c)>>
      [] OTHER -> <<>>

\* let filtered_parent_ids = commit.parents().map(|x| walk2(filter, x.id()))
ParentCalls(filt, c) == [i \in 1..Len(c.parents) |-> Walk2Frame(filt, c.parents[i])]

\* let filtered_tree = match &to_op(filter) { ... }, from the ids that its
\* calls have returned
TreeOf(filt, c, st, ids) ==
    CASE filt.op = "Compose" ->
            LET kept == SelectSeq(ids, NonZero) IN
            Ok(ComposeTrees([i \in 1..Len(kept) |-> kept[i].tree]))
      [] filt.op = "Fold" ->
            IF \E i \in 1..Len(ids) : ~find_commit(st, ids[i])
            THEN Err("object not found")
            ELSE Ok(FoldTrees(ids, 1, c.tree))
      [] filt.op = "Subtract" ->
            With(unapply(filt.kids[2], TreeOrEmpty(st, ids[2]), EmptyTree), LAMBDA bu :
                IF ~bu.ok THEN bu ELSE
                With(apply(filt.kids[1], bu.tree), LAMBDA ba :
                    IF ~ba.ok THEN ba
                    ELSE Ok(SubtractTree(TreeOrEmpty(st, ids[1]), ba.tree))))
      [] OTHER -> apply(filt, c.tree)

\* apply_to_commit2 after the calls whose results are acc
apply_to_commit2_next(f, c, st, acc) ==
    LET filt == optimize(f)
        n == Len(acc)
    IN
    CASE n > 0 /\ ~acc[n].ok -> Returns(CErr(acc[n].err, st))
      [] filt.op = "Nop" -> Returns(CRes(c, st))
      [] filt.op = "Empty" -> Returns(CRes(Zero, st))
      [] filt.op = "Squash" -> Returns(rewrite_commit(st, c, <<>>, c.tree))
      [] filt.op = "Chain" ->
            CASE n = 0 -> Calls(ApplyFrame(filt.kids[1], c))
              [] n = 1 -> IF find_commit(st, acc[1].id)
                          THEN Calls(ApplyFrame(filt.kids[2], acc[1].id))
                          ELSE Returns(CRes(Zero, st))
              [] OTHER -> Returns(CRes(acc[2].id, st))
      [] OTHER ->
            LET first == TreeCalls(filt, c)
                then == ParentCalls(filt, c)
            IN
            IF n = 0 /\ TxHas(st, filt, c) THEN Returns(CRes(Cached(st, filt, c), st))
            ELSE IF n < Len(first) THEN Calls(first[n + 1])
            ELSE With(TreeOf(filt, c, st, SubSeq(Ids(acc), 1, Len(first))), LAMBDA ft :
                 IF ~ft.ok THEN Returns(CErr(ft.err, st))
                 ELSE IF n < Len(first) + Len(then)
                 THEN Calls(then[n - Len(first) + 1])
                 ELSE Returns(create_filtered_commit(
                          st, c, SubSeq(Ids(acc), Len(first) + 1, n), ft.tree, filt)))

\* walk2 between find_known and its return
walk2_next(w, st) ==
    LET n == Len(w.acc) IN
    CASE w.pc = "start" ->
            IF ~find_commit(st, w.c) THEN Returns(CRes(Zero, st))
            ELSE IF TxHas(st, w.f, w.c) THEN Returns(CRes(Cached(st, w.f, w.c), st))
            ELSE GoesOn
      [] w.pc = "find_known" -> GoesOn
      [] n > 0 /\ ~w.acc[n].ok -> Returns(CErr(w.acc[n].err, st))
      [] w.pc = "traverse" ->
            IF w.queue # <<>> THEN Calls(ApplyFrame(w.f, Head(w.queue)))
            ELSE Calls(ApplyFrame(w.f, w.c))
      [] OTHER -> Returns(CRes(w.acc[n].id, st))

NextOf(frame, st) ==
    IF frame.kind = "walk2" THEN walk2_next(frame, st)
    ELSE apply_to_commit2_next(frame.f, frame.c, st, frame.acc)

\* walk2 has made a call: the revwalk has yielded a commit, or it is over
Yielded(frame) ==
    IF frame.kind # "walk2" THEN frame
    ELSE IF frame.queue # <<>> THEN [frame EXCEPT !.queue = Tail(@)]
    ELSE [frame EXCEPT !.pc = "final"]

\* the revwalk of find_known: from input, the known commits hidden
KnownWalkUnhidden(input, known) == RevWalk(input, {})

KnownWalk(input, known) == RevWalk(input, Range(known))

\* the commits of the revwalk of find_known that have a cache entry
KnownHits(w, st) ==
    SelectSeq(KnownWalk(w.c, w.known), LAMBDA id : TxHas(st, w.f, id))

InitNest ==
    /\ IdleButNest
    /\ \E tip \in NestTips : graph = Ancestors(tip)
    /\ cfilter \in NestFilters
    /\ cache \in SubsetsUpTo(TrueEntries(cfilter, graph), MaxSeeded)
    /\ odb = graph \cup ObjectsOf(cache)
    /\ \E c \in graph, kind \in {"walk2", "apply"} :
        /\ nentry = [kind |-> kind, c |-> c]
        /\ nframes = <<IF kind = "walk2" THEN Walk2Frame(cfilter, c)
                       ELSE ApplyFrame(cfilter, c)>>
    /\ ntx = MkState(cache, odb)
    /\ nret = NoWalk
    /\ nsteps = 0

Innermost == nframes[Len(nframes)]

\* walk2 has found the commit and no cache entry: find_known begins
BeginFindKnown ==
    /\ nframes # <<>>
    /\ nsteps < MaxSteps
    /\ nsteps' = nsteps + 1
    /\ Innermost.kind = "walk2" /\ Innermost.pc = "start"
    /\ NextOf(Innermost, ntx).do = "go on"
    /\ nframes' = [nframes EXCEPT ![Len(nframes)].pc = "find_known"]
    /\ UNCHANGED <<nentry, ntx, nret>>
    /\ UNCHANGED <<graph, odb, cache, cfilter>>
    /\ UNCHANGED nonNestVars

\* find_known meets a commit with a cache entry: known.push(id);
\* continue 'find_known
RestartFindKnown ==
    /\ nframes # <<>>
    /\ nsteps < MaxSteps
    /\ nsteps' = nsteps + 1
    /\ Innermost.kind = "walk2" /\ Innermost.pc = "find_known"
    /\ \E hits \in {KnownHits(Innermost, ntx)} :
        /\ hits # <<>>
        /\ nframes' = [nframes EXCEPT ![Len(nframes)].known = Append(@, hits[1])]
    /\ UNCHANGED <<nentry, ntx, nret>>
    /\ UNCHANGED <<graph, odb, cache, cfilter>>
    /\ UNCHANGED nonNestVars

\* find_known returns (known, n_new); walk2 makes its revwalk
EndFindKnown ==
    /\ nframes # <<>>
    /\ nsteps < MaxSteps
    /\ nsteps' = nsteps + 1
    /\ Innermost.kind = "walk2" /\ Innermost.pc = "find_known"
    /\ KnownHits(Innermost, ntx) = <<>>
    /\ nframes' = [nframes EXCEPT
                      ![Len(nframes)].pc = "traverse",
                      ![Len(nframes)].queue =
                          FilteredTraversal(Innermost.c, Innermost.known)]
    /\ UNCHANGED <<nentry, ntx, nret>>
    /\ UNCHANGED <<graph, odb, cache, cfilter>>
    /\ UNCHANGED nonNestVars

\* the innermost call calls walk2 or apply_to_commit
NestCall ==
    /\ nframes # <<>>
    /\ nsteps < MaxSteps
    /\ nsteps' = nsteps + 1
    /\ \E x \in {NextOf(Innermost, ntx)} :
        /\ x.do = "call"
        /\ nframes' = Append([nframes EXCEPT ![Len(nframes)] = Yielded(@)], x.frame)
    /\ UNCHANGED <<nentry, ntx, nret>>
    /\ UNCHANGED <<graph, odb, cache, cfilter>>
    /\ UNCHANGED nonNestVars

\* the innermost call returns to its caller
NestReturn ==
    /\ nframes # <<>>
    /\ nsteps < MaxSteps
    /\ nsteps' = nsteps + 1
    /\ \E x \in {NextOf(Innermost, ntx)} :
        /\ x.do = "return"
        /\ ntx' = x.res.st
        /\ IF Len(nframes) = 1
           THEN /\ nframes' = <<>>
                /\ nret' = x.res
           ELSE /\ nframes' = [SubSeq(nframes, 1, Len(nframes) - 1) EXCEPT
                                  ![Len(nframes) - 1].acc = Append(@, Answer(x.res))]
                /\ UNCHANGED nret
    /\ UNCHANGED nentry
    /\ UNCHANGED <<graph, odb, cache, cfilter>>
    /\ UNCHANGED nonNestVars

NextNest ==
    \/ BeginFindKnown
    \/ RestartFindKnown
    \/ EndFindKnown
    \/ NestCall
    \/ NestReturn

SpecNest == InitNest /\ [][NextNest]_vars

\* the call by call evaluation returns what walk2 and apply_to_commit return
NestAgrees ==
    nframes = <<>> =>
        LET r == IF nentry.kind = "walk2"
                 THEN walk2(cfilter, nentry.c, MkState(cache, odb))
                 ELSE apply_to_commit(cfilter, nentry.c, MkState(cache, odb))
        IN  nret = r /\ ntx = r.st

\* every restart of find_known has added a commit that was not in known:
\* no commit is twice in known, and known holds ancestors of the input
KnownGrows ==
    \A i \in 1..Len(nframes) :
        LET w == nframes[i] IN
        /\ \A j, k \in 1..Len(w.known) : w.known[j] = w.known[k] => j = k
        /\ Range(w.known) \subseteq Ancestors(w.c)

\* a walk2 that apply_to_commit calls is called on a strict ancestor
NestedOnAncestors ==
    \A i \in 1..(Len(nframes) - 1) :
        (nframes[i].kind = "apply" /\ nframes[i + 1].kind = "walk2") =>
            /\ nframes[i + 1].c \in Ancestors(nframes[i].c)
            /\ nframes[i + 1].c # nframes[i].c

\* the calls go on until the outermost call has returned, and that is
\* before the bound on the steps is reached
WithinSteps == nsteps < MaxSteps

\* C35: walk(f, input) terminates on every finite history for every filter
\* without a workspace: every restart of find_known adds a commit that was
\* not in known, so there is at most one restart per commit, the walk2 calls
\* that apply_to_commit makes for the parents are on strict ancestors, and
\* the outermost call returns
C35_WalkTerminates ==
    /\ KnownGrows
    /\ NestedOnAncestors
    /\ WithinSteps

\* find_known has restarted, and a walk2 called by apply_to_commit for a
\* parent walks by itself
C35_Witness ==
    /\ Len(nframes) >= 3
    /\ \E i \in 1..Len(nframes) : nframes[i].known # <<>>
    /\ \E i \in 1..(Len(nframes) - 1) :
        /\ nframes[i].kind = "apply"
        /\ nframes[i + 1].kind = "walk2"
        /\ nframes[i + 1].pc = "traverse"

(***************************************************************************)
(* fetch_upstream (josh-proxy.rs): the credential cache, the set fetching  *)
(* and the fetches on the one thread of the fetch pool.  The requests are  *)
(* served by the one thread of the server; a fetch ends on the thread of   *)
(* the pool.                                                               *)
(***************************************************************************)
MaxRequests == 2     \* requests that are served at the same time

Requests == 1..MaxRequests

MaxQueued == 2       \* fetches that wait for or run on the thread of the pool

\* hash_strings(remote_url, username, password)
Hashes == {"h1", "h2"}

NoRequest == [pc |-> "idle", hash |-> "", stale_ok |-> FALSE, waited |-> FALSE,
              ok |-> FALSE, recorded |-> FALSE]

InitFetch ==
    /\ IdleButFetch
    /\ credential_cache = [h \in Hashes |-> "none"]
    /\ fetching = {}
    /\ fetch_push_pool = <<>>
    /\ requests = [r \in Requests |-> NoRequest]
    /\ passed = {}

\* a slip: an entry of any age counts
credentials_cached_any_age(h, stale_ok) ==
    stale_ok /\ credential_cache[h] # "none"

\* let credentials_cached_ok = stale_ok && { the entry is younger than 60 s }
credentials_cached_ok(h, stale_ok) ==
    stale_ok /\ credential_cache[h] = "fresh"

\* fetch_upstream(http, prefix, username, password, remote_url, stale_ok)
RequestFetch(r) ==
    /\ requests[r].pc = "idle"
    /\ \E h \in Hashes, stale_ok \in BOOLEAN :
        LET cached == credentials_cached_ok(h, stale_ok)
            \* !fetching.write().unwrap().insert(credentials_hashed)
            present == h \in fetching
        IN
        /\ (cached /\ present) \/ Len(fetch_push_pool) < MaxQueued
        /\ fetching' = IF cached THEN fetching \cup {h} ELSE fetching
        /\ fetch_push_pool' =
              IF cached /\ present THEN fetch_push_pool
              ELSE Append(fetch_push_pool,
                          [hash |-> h, pc |-> "fetch",
                           \* do_fetch.forget(): nobody waits for it
                           for |-> IF cached THEN {} ELSE {r}])
        /\ requests' = [requests EXCEPT ![r] =
              IF cached
              THEN [pc |-> "answered", hash |-> h, stale_ok |-> stale_ok,
                    waited |-> FALSE, ok |-> TRUE, recorded |-> h \in passed]
              ELSE [pc |-> "waiting", hash |-> h, stale_ok |-> stale_ok,
                    waited |-> TRUE, ok |-> FALSE, recorded |-> h \in passed]]
    /\ UNCHANGED <<credential_cache, passed>>
    /\ UNCHANGED nonFetchVars

\* the request that waits for the fetch gets its result
Answered(task, ok) ==
    [r \in Requests |->
        IF r \in task.for
        THEN [requests[r] EXCEPT !.pc = "answered", !.ok = ok]
        ELSE requests[r]]

\* fetch_refs_from_url returns an error: and_then is not run
FetchFails ==
    /\ fetch_push_pool # <<>>
    /\ Head(fetch_push_pool).pc = "fetch"
    /\ fetch_push_pool' = Tail(fetch_push_pool)
    /\ requests' = Answered(Head(fetch_push_pool), FALSE)
    /\ UNCHANGED <<credential_cache, fetching, passed>>
    /\ UNCHANGED nonFetchVars

\* fetch_refs_from_url returns Ok: fetching.write().unwrap().remove(..)
FetchRemoves ==
    /\ fetch_push_pool # <<>>
    /\ Head(fetch_push_pool).pc = "fetch"
    /\ fetching' = fetching \ {Head(fetch_push_pool).hash}
    /\ fetch_push_pool' = [fetch_push_pool EXCEPT ![1].pc = "removed"]
    /\ UNCHANGED <<credential_cache, requests, passed>>
    /\ UNCHANGED nonFetchVars

\* cc.insert(credentials_hashed, std::time::Instant::now()); Ok(())
FetchRecords ==
    /\ fetch_push_pool # <<>>
    /\ Head(fetch_push_pool).pc = "removed"
    /\ credential_cache' =
          [credential_cache EXCEPT ![Head(fetch_push_pool).hash] = "fresh"]
    /\ passed' = passed \cup {Head(fetch_push_pool).hash}
    /\ fetch_push_pool' = Tail(fetch_push_pool)
    /\ requests' = Answered(Head(fetch_push_pool), TRUE)
    /\ UNCHANGED fetching
    /\ UNCHANGED nonFetchVars

\* 60 s have passed since the last successful fetch for h
Expire(h) ==
    /\ h \in passed
    /\ passed' = passed \ {h}
    /\ credential_cache' =
          [credential_cache EXCEPT ![h] = IF @ = "fresh" THEN "old" ELSE @]
    /\ UNCHANGED <<fetching, fetch_push_pool, requests>>
    /\ UNCHANGED nonFetchVars

\* path == "/flush": service.credential_cache.write().unwrap().clear()
Flush ==
    /\ credential_cache' = [h \in Hashes |-> "none"]
    /\ UNCHANGED <<fetching, fetch_push_pool, requests, passed>>
    /\ UNCHANGED nonFetchVars

\* the answer is sent, the next request comes in
NextRequest(r) ==
    /\ requests[r].pc = "answered"
    /\ requests' = [requests EXCEPT ![r] = NoRequest]
    /\ UNCHANGED <<credential_cache, fetching, fetch_push_pool, passed>>
    /\ UNCHANGED nonFetchVars

NextFetch ==
    \/ \E r \in Requests : RequestFetch(r)
    \/ FetchFails
    \/ FetchRemoves
    \/ FetchRecords
    \/ \E h \in Hashes : Expire(h)
    \/ Flush
    \/ \E r \in Requests : NextRequest(r)

SpecFetch == InitFetch /\ [][NextFetch]_vars

\* a fetch for the hash h is running or waits for the thread of the pool
FetchPending(h) ==
    \E i \in 1..Len(fetch_push_pool) :
        fetch_push_pool[i].hash = h /\ fetch_push_pool[i].pc = "fetch"

\* C36 as stated: a hash that fetch_upstream has inserted into fetching is
\* removed when the fetch it started has finished, whether that fetch
\* succeeded or failed: a hash is in the set only while a fetch for it is
\* under way, so a request with cached credentials finds it there only
\* then
C36_FinishedFetchRemoves ==
    \A h \in fetching : FetchPending(h)

\* the entries of the credential cache that are younger than 60 s were
\* recorded by a successful fetch less than 60 s ago
FreshArePassed ==
    \A h \in Hashes : credential_cache[h] = "fresh" => h \in passed

\* C37: fetch_upstream answers Ok without waiting for a fetch only if
\* stale_ok is true and a successful fetch has recorded the same hash less
\* than 60 s earlier; a request with a hash that no fetch has recorded, or
\* with stale_ok false, waits for its fetch and gets the error if the fetch
\* fails
C37_StaleOnlyAfterSuccess ==
    /\ FreshArePassed
    /\ \A r \in Requests :
        requests[r].pc = "answered" =>
            /\ ~requests[r].waited => requests[r].stale_ok /\ requests[r].recorded
            /\ (~requests[r].stale_ok \/ ~requests[r].recorded) => requests[r].waited

\* one request was answered from the cache without waiting, another one
\* waited for its fetch and got the error
C37_Witness ==
    \E r, s \in Requests :
        /\ requests[r].pc = "answered" /\ ~requests[r].waited
        /\ requests[s].pc = "answered" /\ requests[s].waited /\ ~requests[s].ok
        /\ requests[s].stale_ok

(***************************************************************************)
(* The RwLocks of forward_maps and backward_maps (josh-proxy.rs,           *)
(* view_maps.rs).  make_view_repo and get_info run on the threads of the   *)
(* compute pool, the handler of /repo_update on the thread of the fetch    *)
(* pool.  A handler is the sequence of its lock operations.                *)
(***************************************************************************)
MaxCompute == 2      \* threads of the compute pool
MaxHandled == 2      \* handlers one thread runs
MaxReads == 1        \* look-ups of one handler that go on to the shared maps

ComputeThreads == 1..MaxCompute

\* fetch_push_pool = CpuPool::new(1)
FetchPushThread == MaxCompute + 1

Workers == ComputeThreads \cup {FetchPushThread}

Acq(lock) == [op |-> "acquire", lock |-> lock]

Rel(lock) == [op |-> "release", lock |-> lock]

\* upsteam.read().unwrap().get(viewstr, from): the guard is a temporary of
\* the return statement
ReadUpstream(maps) == <<Acq(maps \o ".read"), Rel(maps \o ".read")>>

\* the sequences of at most n look-ups that go on to one of maps
RECURSIVE LookUps(_, _)
LookUps(maps, n) ==
    IF n = 0 THEN {<<>>}
    ELSE LookUps(maps, n - 1)
         \cup {ReadUpstream(m) \o rest : m \in maps, rest \in LookUps(maps, n - 1)}

\* a slip: the statistics of backward_maps are read first
TraceStatsBackwardFirst ==
    <<Acq("backward.read"), Acq("forward.read"),
      Rel("forward.read"), Rel("backward.read")>>

\* trace_begin!("merge_maps", "before_fm": forward_maps.read().unwrap().stats(),
\* "before_bm": backward_maps.read().unwrap().stats()): the two guards are
\* temporaries of one statement and are dropped at its end, the later first
TraceStats ==
    <<Acq("forward.read"), Acq("backward.read"),
      Rel("backward.read"), Rel("forward.read")>>

\* the trace macros with the arguments evaluated, or compiled out
Traces == {<<>>, TraceStats}

\* let mut forward_maps = forward_maps.write().unwrap();
\* let mut backward_maps = backward_maps.write().unwrap();
\* the merges; the guards are dropped at the end of the block, the later
\* first
WriteBlock ==
    <<Acq("forward.write"), Acq("backward.write"),
      Rel("backward.write"), Rel("forward.write")>>

\* make_view_repo: fm and bm are downstream of forward_maps and of
\* backward_maps
MakeViewRepo ==
    {reads \o before \o WriteBlock \o after :
        reads \in LookUps({"forward", "backward"}, MaxReads),
        before \in Traces, after \in Traces}

\* get_info is called with forward_maps for both of its maps
\* (let backward_maps = service.forward_maps.clone()) and merges nothing
GetInfo == LookUps({"forward"}, MaxReads)

\* /repo_update: let backward_maps = backward_maps.read().unwrap();
\* process_repo_update(repo_update, &backward_maps)
RepoUpdateHandler == {ReadUpstream("backward")}

Handlers(w) ==
    IF w = FetchPushThread
    THEN {[name |-> "repo_update", prog |-> p] : p \in RepoUpdateHandler}
    ELSE {[name |-> "make_view_repo", prog |-> p] : p \in MakeViewRepo}
         \cup {[name |-> "get_info", prog |-> p] : p \in GetInfo}

IdleWorker == [name |-> "", prog |-> <<>>, holds |-> {}, handled |-> 0]

\* whether read() waits while a writer waits is left to the operating system
Policies == {"readers first", "writers first"}

InitLocks ==
    /\ IdleButLocks
    /\ workers = [w \in Workers |-> IdleWorker]
    /\ policy \in Policies

\* the lock the worker is about to take
Wants(w) ==
    IF workers[w].prog # <<>> /\ Head(workers[w].prog).op = "acquire"
    THEN {Head(workers[w].prog).lock}
    ELSE {}

\* the workers that hold a guard of lock
Guards(lock) == {w \in Workers : lock \in workers[w].holds}

\* RwLock::read and RwLock::write return
Granted(lock) ==
    IF lock \in {"forward.write", "backward.write"}
    THEN LET maps == IF lock = "forward.write" THEN "forward" ELSE "backward" IN
         Guards(maps \o ".write") = {} /\ Guards(maps \o ".read") = {}
    ELSE LET maps == IF lock = "forward.read" THEN "forward" ELSE "backward" IN
         /\ Guards(maps \o ".write") = {}
         /\ policy = "writers first" =>
               ~\E w \in Workers : (maps \o ".write") \in Wants(w)

\* the pool hands the next request to the thread
BeginHandler(w) ==
    /\ workers[w].prog = <<>>
    /\ workers[w].handled < MaxHandled
    /\ \E h \in Handlers(w) :
          workers' = [workers EXCEPT ![w].name = h.name, ![w].prog = h.prog,
                                     ![w].handled = @ + 1]
    /\ UNCHANGED policy
    /\ UNCHANGED nonLocksVars

\* read().unwrap() or write().unwrap() returns the guard
Acquire(w) ==
    /\ Wants(w) # {}
    /\ \E lock \in Wants(w) :
          /\ Granted(lock)
          /\ workers' = [workers EXCEPT ![w].prog = Tail(@),
                                        ![w].holds = @ \cup {lock}]
    /\ UNCHANGED policy
    /\ UNCHANGED nonLocksVars

\* the guard is dropped
Release(w) ==
    /\ workers[w].prog # <<>>
    /\ Head(workers[w].prog).op = "release"
    /\ workers' = [workers EXCEPT ![w].prog = Tail(@),
                                  ![w].holds = @ \ {Head(workers[w].prog).lock}]
    /\ UNCHANGED policy
    /\ UNCHANGED nonLocksVars

NextLocks ==
    \/ \E w \in Workers : BeginHandler(w)
    \/ \E w \in Workers : Acquire(w)
    \/ \E w \in Workers : Release(w)

SpecLocks == InitLocks /\ [][NextLocks]_vars

\* the threads run: a step that can be taken is taken
SpecLocksLive == SpecLocks /\ WF_vars(NextLocks)

\* the write lock of backward_maps is held only with that of forward_maps
ForwardThenBackward ==
    \A w \in Workers :
        "backward.write" \in workers[w].holds
            => "forward.write" \in workers[w].holds

\* the write lock of forward_maps is not taken by the holder of that of
\* backward_maps
NotBackwardThenForward ==
    \A w \in Workers :
        "forward.write" \in Wants(w) => "backward.write" \notin workers[w].holds

\* no read lock of a map is taken or held with the write lock of that map
NoReadUnderWrite ==
    \A w \in Workers :
        /\ ~({"forward.read", "forward.write"}
                \subseteq workers[w].holds \cup Wants(w))
        /\ ~({"backward.read", "backward.write"}
                \subseteq workers[w].holds \cup Wants(w))

\* the worker can take its next step
CanStep(w) ==
    /\ workers[w].prog # <<>>
    /\ \/ Head(workers[w].prog).op = "release"
       \/ Granted(Head(workers[w].prog).lock)

\* the wanted locks are not all held by workers that wait themselves
NoCycle ==
    (\E w \in Workers : Wants(w) # {}) => \E w \in Workers : CanStep(w)

\* a worker that waits for a lock gets it
NoWaitForever ==
    \A w \in Workers : (Wants(w) # {}) ~> (Wants(w) = {})

\* a guard that is held is dropped
AllReleased ==
    \A w \in Workers : (workers[w].holds # {}) ~> (workers[w].holds = {})

\* C38: under every interleaving of make_view_repo, get_info and the
\* handler of /repo_update no thread waits forever for a lock of
\* forward_maps or backward_maps: the write locks are taken forward first,
\* then backward, no thread takes a read lock of a map of which it holds
\* the write lock, and every lock that is taken is released
C38_NoDeadlock ==
    /\ []ForwardThenBackward
    /\ []NotBackwardThenForward
    /\ []NoReadUnderWrite
    /\ []NoCycle
    /\ NoWaitForever
    /\ AllReleased

\* a merge waits for the write lock of backward_maps, which /repo_update
\* holds for reading, while a third thread waits for forward_maps
C38_Witness ==
    \E w, v \in ComputeThreads :
        /\ w # v
        /\ "forward.write" \in workers[w].holds
        /\ "backward.write" \in Wants(w)
        /\ "backward.read" \in workers[FetchPushThread].holds
        /\ "forward.read" \in Wants(v)
        /\ ~Granted("backward.write")
        /\ ~Granted("forward.read")

====
